---- MODULE Spec2Model ----
(***************************************************************************)
(* A model of the perth5_cxx tide prediction core: the structured axis     *)
(* (Axis), the grid interpolator (TidalModel::interpolate with its         *)
(* Accelerator), the astronomical state cache (Accelerator::update_args)   *)
(* and the evaluator (Perth::evaluate / evaluate_tide).                    *)
(*                                                                         *)
(* Numbers.  The program computes in IEEE doubles.  The model computes     *)
(* exactly, on a lattice:                                                  *)
(*   - coordinates are integers counting ticks of 1/20 degree, so that     *)
(*     Circle (360 degrees) is 7200 ticks;                                 *)
(*   - interpolation weights and interpolated values are exact rationals;  *)
(*   - times are integers counting quarter days (6 hours);                 *)
(*   - angles of the astronomical state are whole degrees, multiples of    *)
(*     90, so that cos and sin are exact.                                  *)
(* The one IEEE effect that is visible on this lattice is kept: the sign   *)
(* of a zero returned by std::remainder (see FRemainder).                  *)
(***************************************************************************)
EXTENDS Integers, Sequences, FiniteSets, TLC

VARIABLES
    axis,       \* SpecAxis: the Axis object under test
    coord,      \* SpecAxis: the coordinate of the last find_indices call
    found,      \* SpecAxis: what that call returned, <<>> for std::nullopt
    apc,        \* SpecAxis: "init" before the first call, "done" after one
    model,      \* the TidalModel: lon_, lat_, data_ (read-only once built)
    acc,        \* the Accelerator of the evaluation
    table,      \* the TideTable of the evaluation: constituent -> TideComponent
    call,       \* the last TidalModel::interpolate call: arguments, locals, result
    group_modulations,  \* Perth::group_modulations_
    ev,         \* the activation of Perth::evaluate: inputs, outputs, loop index
    hist,       \* for each point evaluate has reached, what evaluate_tide did
    last        \* the last call of a constructor or function under test: arguments, outcome

avars == <<axis, coord, found, apc>>

ivars == <<model, acc, table, call>>

evars == <<group_modulations, ev, hist>>

vars == <<avars, ivars, evars, last>>

----------------------------------------------------------------------------
(* math.hpp *)

Abs(x) == IF x < 0 THEN -x ELSE x

Sign(x) == IF x < 0 THEN -1 ELSE IF x > 0 THEN 1 ELSE 0

Min2(a, b) == IF a < b THEN a ELSE b

\* 360.0 degrees, in ticks of 1/20 degree.
Circle == 360 * 20

\* d degrees and h hundredths of a degree (h a multiple of 5), in ticks.
Deg(d, h) == d * (Circle \div 360) + (h * (Circle \div 360)) \div 100

\* std::round(a / b): the nearest integer, halfway cases away from zero.
RoundDiv(a, b) ==
    Sign(a) * Sign(b) * ((2 * Abs(a) + Abs(b)) \div (2 * Abs(b)))

\* The integer nearest to x / y (y > 0), halfway cases to the even integer:
\* the quotient std::remainder uses.
RoundHalfEven(x, y) ==
    LET q == x \div y
        r2 == 2 * (x - q * y)
    IN  IF r2 < y THEN q
        ELSE IF r2 > y THEN q + 1
        ELSE IF q % 2 = 0 THEN q ELSE q + 1

\* C++ x % y on integers: the quotient is truncated toward zero.
TruncRem(x, y) == x - y * (Sign(x) * Sign(y) * (Abs(x) \div Abs(y)))

\* remainder<T> for integral T: x % y, moved to the sign of y.
IRemainder(x, y) ==
    LET result == TruncRem(x, y)
    IN  IF result # 0 /\ ((result < 0) # (y < 0)) THEN result + y ELSE result

\* remainder<T> for floating-point T, y > 0: std::remainder(x, y), to which y
\* is added when its sign bit differs from y's.  A zero result of
\* std::remainder carries the sign of x, so for a negative exact multiple of
\* y the sign bit is set and the function returns y, not 0.
FRemainder(x, y) ==
    LET result == x - RoundHalfEven(x, y) * y
        signbit == result < 0 \/ (result = 0 /\ x < 0)
    IN  IF signbit THEN result + y ELSE result

\* normalize_angle(x, min, circle)
normalize_angle(x, min, circle) == FRemainder(x - min, circle) + min

----------------------------------------------------------------------------
(* axis.hpp / axis.cpp *)

\* The fields Axis::initialize leaves for evenly spaced points
\* start, start + step, ..., start + (size - 1) * step.
MakeAxis(start, step, size, periodic) ==
    [start_ |-> start, step_ |-> step, size_ |-> size,
     is_ascending_ |-> start < start + step,
     is_periodic_ |-> periodic /\ Abs(step * size) = Circle]

\* Axis::operator(): the value at an index.
value(a, index) == a.start_ + index * a.step_

AxisEnd(a) == value(a, a.size_ - 1)

min_value(a) == IF a.is_ascending_ THEN a.start_ ELSE AxisEnd(a)

max_value(a) == IF a.is_ascending_ THEN AxisEnd(a) ELSE a.start_

normalize_coordinate(a, coordinate) ==
    IF a.is_periodic_
         /\ (coordinate >= min_value(a) + Circle \/ coordinate < min_value(a))
    THEN normalize_angle(coordinate, min_value(a), Circle)
    ELSE coordinate

find_index(a, coordinate, bounded) ==
    LET index == RoundDiv(normalize_coordinate(a, coordinate) - a.start_, a.step_)
    IN  IF index < 0 THEN (IF bounded THEN 0 ELSE -1)
        ELSE IF index >= a.size_ THEN (IF bounded THEN a.size_ - 1 ELSE -1)
        ELSE index

\* A variant of FrameIndices that pairs a coordinate on a node with the
\* previous node instead of the next one.
FrameIndices_PairPrevious(a, c, i) ==
    LET delta == c - value(a, i)
        wrap(k) == IF a.is_periodic_ THEN IRemainder(k, a.size_) ELSE k
    IN  IF delta = 0
        THEN (IF i = 0 THEN <<i, i + 1>> ELSE <<i - 1, i>>)
        ELSE IF delta < 0
        THEN <<wrap(IF a.is_ascending_ THEN i - 1 ELSE i + 1), i>>
        ELSE <<i, wrap(IF a.is_ascending_ THEN i + 1 ELSE i - 1)>>

\* The step of find_indices that frames the coordinate from the index found:
\* <<i0, i1>> before the final range check.
FrameIndices(a, c, i) ==
    LET delta == c - value(a, i)
        wrap(k) == IF a.is_periodic_ THEN IRemainder(k, a.size_) ELSE k
    IN  IF delta = 0
        THEN (IF i = a.size_ - 1 THEN <<i - 1, i>> ELSE <<i, i + 1>>)
        ELSE IF delta < 0
        THEN <<wrap(IF a.is_ascending_ THEN i - 1 ELSE i + 1), i>>
        ELSE <<i, wrap(IF a.is_ascending_ THEN i + 1 ELSE i - 1)>>

\* Axis::find_indices: <<i0, i1>>, or <<>> for std::nullopt.
find_indices(a, coordinate) ==
    LET c == normalize_coordinate(a, coordinate)
        length == a.size_
        i == find_index(a, c, FALSE)
    IN  IF i = -1
        THEN (IF a.is_periodic_ THEN <<length - 1, 0>> ELSE <<>>)
        ELSE LET p == FrameIndices(a, c, i)
             IN  IF p[1] >= 0 /\ p[1] < length /\ p[2] >= 0 /\ p[2] < length
                 THEN p ELSE <<>>

----------------------------------------------------------------------------
(* The axes and coordinates of SpecAxis *)

\* Coordinates range over MaxTurns full circles on either side of zero.
MaxTurns == 2

\* The longitude axis of the axis-lookup scenario: -180, -179.5, ..., 179.5.
AxisHalfDegree == MakeAxis(Deg(-180, 0), Deg(0, 50), 720, TRUE)

AxisSet ==
    { MakeAxis(Deg(-180, 0), Deg(90, 0), 4, TRUE),    \* periodic, ascending
      MakeAxis(Deg(0, 0), Deg(90, 0), 4, TRUE),       \* periodic, from 0
      MakeAxis(Deg(180, 0), Deg(-90, 0), 4, TRUE),    \* periodic, descending
      MakeAxis(Deg(-90, 0), Deg(90, 0), 3, FALSE),    \* ascending
      MakeAxis(Deg(90, 0), Deg(-90, 0), 3, FALSE),    \* descending
      AxisHalfDegree }

\* Every 15 degrees, plus the three coordinates of the lookup scenario.
CoordSet ==
    { Deg(15 * k, 0) : k \in (-24 * MaxTurns)..(24 * MaxTurns) }
      \cup { Deg(-180, -25), Deg(179, 90), Deg(179, 50) }

AxisInit ==
    /\ axis \in AxisSet
    /\ coord = 0
    /\ found = <<>>
    /\ apc = "init"
    /\ model = <<>> /\ acc = <<>> /\ table = <<>> /\ call = <<>>
    /\ group_modulations = FALSE /\ ev = <<>> /\ hist = <<>> /\ last = <<>>

\* One call of Axis::find_indices on the axis under test.
FindIndices ==
    /\ \E x \in CoordSet :
          /\ coord' = x
          /\ found' = find_indices(axis, x)
    /\ apc' = "done"
    /\ UNCHANGED <<axis, ivars, evars, last>>

SpecAxis == AxisInit /\ [][FindIndices]_vars

----------------------------------------------------------------------------
(* Claims about Axis::find_indices, checked under SpecAxis *)

\* The coordinate reduced into [min_value, min_value + 360) on a periodic axis,
\* as the real number it is (no floating-point zero sign).
Normalized(a, x) ==
    IF a.is_periodic_ THEN min_value(a) + ((x - min_value(a)) % Circle) ELSE x

NodesAt(a, x) == { i \in 0..(a.size_ - 1) : value(a, i) = Normalized(a, x) }

OnNode(a, x) == NodesAt(a, x) # {}

ValidIndex(a, i) == i >= 0 /\ i < a.size_

\* i0 and i1 are neighbours: consecutive, or the two ends of a periodic axis.
Adjacent(a, i0, i1) ==
    \/ Abs(i0 - i1) = 1
    \/ a.is_periodic_ /\ {i0, i1} = {0, a.size_ - 1}

\* value(i0) <= x < value(i1); across the seam of a periodic axis the three
\* numbers are compared modulo 360 degrees.
Frames(a, x, i0, i1) ==
    IF a.is_periodic_
    THEN /\ (value(a, i1) - value(a, i0)) % Circle = Abs(a.step_)
         /\ (Normalized(a, x) - value(a, i0)) % Circle < Abs(a.step_)
    ELSE value(a, i0) <= x /\ x < value(a, i1)

\* C7: for a coordinate that is on no node, a returned pair (i0, i1) consists
\* of valid indices of adjacent nodes that frame the normalized coordinate,
\* value(i0) <= x' < value(i1), on ascending and descending axes alike; and a
\* periodic axis returns a pair for every coordinate.
C7_FramingPair ==
    apc = "done" =>
        /\ (found # <<>> /\ ~OnNode(axis, coord)) =>
              /\ ValidIndex(axis, found[1]) /\ ValidIndex(axis, found[2])
              /\ Adjacent(axis, found[1], found[2])
              /\ Frames(axis, coord, found[1], found[2])
        /\ axis.is_periodic_ => found # <<>>

\* The same statement restricted to ascending axes.
C7_FramingAscending == axis.is_ascending_ => C7_FramingPair

\* The part of C7 that says a periodic axis always answers.
C7_TotalOnPeriodic == (apc = "done" /\ axis.is_periodic_) => found # <<>>

\* Past the last node of a periodic axis: in the cell that closes the circle.
PastLastNode(a, x) ==
    /\ a.is_periodic_
    /\ Normalized(a, x) > max_value(a)

\* Strictly outside the range of a non-periodic axis.
Outside(a, x) == ~a.is_periodic_ /\ (x < min_value(a) \/ x > max_value(a))

\* C8: the edge rules of find_indices: a coordinate on a node is paired with
\* the next node, on the last node of a non-periodic axis with the previous
\* one; past the last node of a periodic axis the pair is (size - 1, 0);
\* outside a non-periodic axis there is no pair.
C8_EdgeRules ==
    apc = "done" =>
        /\ \A i \in NodesAt(axis, coord) :
              IF ~axis.is_periodic_ /\ i = axis.size_ - 1
              THEN found = <<i - 1, i>>
              ELSE found = <<i, (i + 1) % axis.size_>>
        /\ PastLastNode(axis, coord) => found = <<axis.size_ - 1, 0>>
        /\ Outside(axis, coord) => found = <<>>

\* C9 (as amended): on the periodic axis start = -180, step = 0.5, size = 720,
\* find_indices(-180.25) = (719, 0), find_indices(179.9) = (719, 0) and
\* find_indices(0.0) = (360, 361).
C9_Scenario ==
    (apc = "done" /\ axis = AxisHalfDegree) =>
        /\ coord = Deg(-180, -25) => found = <<719, 0>>
        /\ coord = Deg(179, 90) => found = <<719, 0>>
        /\ coord = Deg(0, 0) => found = <<360, 361>>

\* C9 as the specification states it: find_indices(0.0) = (359, 360).
C9_ScenarioAsStated ==
    (apc = "done" /\ axis = AxisHalfDegree) =>
        /\ coord = Deg(-180, -25) => found = <<719, 0>>
        /\ coord = Deg(179, 90) => found = <<719, 0>>
        /\ coord = Deg(0, 0) => found = <<359, 360>>

C9_Witness ==
    /\ apc = "done" /\ axis = AxisHalfDegree
    /\ coord = Deg(0, 0) /\ found = <<360, 361>>

----------------------------------------------------------------------------
(* Exact numbers: rationals, and complex numbers that may be NaN *)

RECURSIVE GCD(_, _)
GCD(a, b) == IF b = 0 THEN a ELSE GCD(b, a % b)

\* The rational n / d (d # 0) in lowest terms with a positive denominator.
Lowest(n, d, g) == [n |-> Sign(d) * (n \div g), d |-> Abs(d) \div g]

Rat(n, d) == Lowest(n, d, GCD(Abs(n), Abs(d)))

RZero == [n |-> 0, d |-> 1]

ROne == [n |-> 1, d |-> 1]

RInt(k) == [n |-> k, d |-> 1]

RAdd(a, b) == Rat(a.n * b.d + b.n * a.d, a.d * b.d)

RSub(a, b) == Rat(a.n * b.d - b.n * a.d, a.d * b.d)

RMul(a, b) == Rat(a.n * b.n, a.d * b.d)

RDiv(a, b) == Rat(a.n * b.d, a.d * b.n)

RLeq(a, b) == a.n * b.d <= b.n * a.d

\* std::complex<double>: a finite value, or a value that is not finite (NaN).
Cx(re, im) == [nan |-> FALSE, re |-> re, im |-> im]

CInt(re, im) == Cx(RInt(re), RInt(im))

CZero == CInt(0, 0)

\* std::numeric_limits<double>::quiet_NaN() in both parts.
undefined_value == [nan |-> TRUE, re |-> RZero, im |-> RZero]

CAdd(a, b) == Cx(RAdd(a.re, b.re), RAdd(a.im, b.im))

CScale(z, w) == Cx(RMul(z.re, w), RMul(z.im, w))

----------------------------------------------------------------------------
(* math.hpp: bilinear interpolation *)

\* bilinear_weights: <<wx1, wx2, wy1, wy2>>.
bilinear_weights(x, y, x1, y1, x2, y2) ==
    << Rat(x2 - x, x2 - x1), Rat(x - x1, x2 - x1),
       Rat(y2 - y, y2 - y1), Rat(y - y1, y2 - y1) >>

\* The four samples of bilinear_interpolation in the order of its add_sample
\* calls: z11, z12, z21, z22 with weights wx1*wy1, wx1*wy2, wx2*wy1, wx2*wy2.
Samples(w, z11, z12, z21, z22) ==
    << [z |-> z11, w |-> RMul(w[1], w[3])], [z |-> z12, w |-> RMul(w[1], w[4])],
       [z |-> z21, w |-> RMul(w[2], w[3])], [z |-> z22, w |-> RMul(w[2], w[4])] >>

\* A variant of add_sample's test that also lets a NaN corner through.
Usable_All(z) == TRUE

\* add_sample's test z - z == T(0): the sample is finite.
Usable(z) == ~z.nan

\* add_sample: a finite sample is added to the weighted sum, to the sum of
\* the weights and to the count; any other sample is skipped.
add_sample(acm, s) ==
    IF Usable(s.z)
    THEN [result |-> CAdd(acm.result, CScale(s.z, s.w)),
          sum_w |-> RAdd(acm.sum_w, s.w),
          n |-> acm.n + 1]
    ELSE acm

RECURSIVE SumSamples(_, _)
\* The state of bilinear_interpolation after the first k add_sample calls.
SumSamples(smp, k) ==
    IF k = 0 THEN [result |-> CZero, sum_w |-> RZero, n |-> 0]
    ELSE add_sample(SumSamples(smp, k - 1), smp[k])

\* A variant that divides only by a positive sum of weights.
WeightedMean_Positive(acm) ==
    [value |-> IF ~RLeq(acm.sum_w, RZero)
               THEN Cx(RDiv(acm.result.re, acm.sum_w),
                       RDiv(acm.result.im, acm.sum_w))
               ELSE undefined_value,
     n |-> acm.n]

\* The return statement of bilinear_interpolation: result / sum_w when
\* abs(sum_w) > 0 and NaN otherwise, with the count n.
WeightedMean(acm) ==
    [value |-> IF acm.sum_w.n # 0
               THEN Cx(RDiv(acm.result.re, acm.sum_w),
                       RDiv(acm.result.im, acm.sum_w))
               ELSE undefined_value,
     n |-> acm.n]

\* bilinear_interpolation: the value returned and the out-parameter n.
bilinear_interpolation(w, z11, z12, z21, z22) ==
    WeightedMean(SumSamples(Samples(w, z11, z12, z21, z22), 4))

----------------------------------------------------------------------------
(* constituent.hpp / constituent.cpp: the catalogue and the tide table *)

\* The catalogue in ordinal order, reduced to four of its constituents: two
\* long-period and two short-period waves.
Catalogue == <<"Node", "Mf", "K1", "M2">>

kNumConstituents == Len(Catalogue)

\* kConstituents: Doodson number and type of each catalogue entry.
kConstituents(c) ==
    CASE c = "Node" -> [doodson_number |-> <<0, 0, 0, 0, 1, 0, 2>>, type |-> "kLongPeriod"]
      [] c = "Mf"   -> [doodson_number |-> <<0, 2, 0, 0, 0, 0, 0>>, type |-> "kLongPeriod"]
      [] c = "K1"   -> [doodson_number |-> <<1, 1, 0, 0, 0, 0, 1>>, type |-> "kShortPeriod"]
      [] c = "M2"   -> [doodson_number |-> <<2, 0, 0, 0, 0, 0, 0>>, type |-> "kShortPeriod"]
      [] c = "Sa"   -> [doodson_number |-> <<0, 0, 1, 0, 0, -1, 0>>, type |-> "kLongPeriod"]
      [] c = "Mm"   -> [doodson_number |-> <<0, 1, 0, -1, 0, 0, 0>>, type |-> "kLongPeriod"]
      [] c = "MSf"  -> [doodson_number |-> <<0, 2, -2, 0, 0, 0, 0>>, type |-> "kLongPeriod"]
      [] c = "Q1"   -> [doodson_number |-> <<1, -2, 0, 1, 0, 0, 3>>, type |-> "kShortPeriod"]
      [] c = "Rho1" -> [doodson_number |-> <<1, -2, 2, -1, 0, 0, 3>>, type |-> "kShortPeriod"]
      [] c = "O1"   -> [doodson_number |-> <<1, -1, 0, 0, 0, 0, 3>>, type |-> "kShortPeriod"]
      [] c = "J1"   -> [doodson_number |-> <<1, 2, 0, -1, 0, 0, 1>>, type |-> "kShortPeriod"]
      [] c = "N2"   -> [doodson_number |-> <<2, -1, 0, 1, 0, 0, 0>>, type |-> "kShortPeriod"]
      [] c = "Nu2"  -> [doodson_number |-> <<2, -1, 2, -1, 0, 0, 0>>, type |-> "kShortPeriod"]
      [] c = "S2"   -> [doodson_number |-> <<2, 2, -2, 0, 0, 0, 0>>, type |-> "kShortPeriod"]
      [] c = "K2"   -> [doodson_number |-> <<2, 2, 0, 0, 0, 0, 0>>, type |-> "kShortPeriod"]
      [] c = "M4"   -> [doodson_number |-> <<4, 0, 0, 0, 0, 0, 0>>, type |-> "kShortPeriod"]

\* constituent_to_index, counted from 1 as TLA+ sequences are.
constituent_to_index(c) == CHOOSE k \in 1..kNumConstituents : Catalogue[k] = c

SeqRange(q) == { q[k] : k \in 1..Len(q) }

make_tide_table_NoneInferred(constituents) ==
    [keys_ |-> Catalogue,
     items_ |-> [k \in 1..kNumConstituents |->
                    [doodson_number |-> kConstituents(Catalogue[k]).doodson_number,
                     tide |-> CZero,
                     tidal_argument |-> 0,
                     type |-> kConstituents(Catalogue[k]).type,
                     is_inferred |-> FALSE]]]

\* make_tide_table(constituents): one TideComponent per catalogue entry,
\* stored at the entry's ordinal.
make_tide_table(constituents) ==
    [keys_ |-> Catalogue,
     items_ |-> [k \in 1..kNumConstituents |->
                    [doodson_number |-> kConstituents(Catalogue[k]).doodson_number,
                     tide |-> CZero,
                     tidal_argument |-> 0,
                     type |-> kConstituents(Catalogue[k]).type,
                     is_inferred |-> Catalogue[k] \notin SeqRange(constituents)]]]

\* table[constituent]
TableAt(t, c) == t.items_[constituent_to_index(c)]

\* table[constituent].tide = z
SetTide(t, c, z) ==
    [t EXCEPT !.items_[constituent_to_index(c)].tide = z]

----------------------------------------------------------------------------
(* tidal_model.hpp: Quality, Accelerator, TidalModel *)

kUndefined == 0

kExtrapolated1 == 1

kExtrapolated2 == 2

kExtrapolated3 == 3

kInterpolated == 4

QualitySet == {kUndefined, kExtrapolated1, kExtrapolated2, kExtrapolated3, kInterpolated}

\* std::numeric_limits<double>::max(), the initial value of the accelerator's
\* cached time and cell corners: a number no coordinate or time equals.
DblMax == 2147483647

\* The time_tolerance +infinity, which a double parameter can hold.
kInfinity == DblMax

\* Accelerator(time_tolerance, n_constituents)
Accelerator(time_tolerance) ==
    [time_tolerance_ |-> time_tolerance,
     time_ |-> DblMax,
     delta_ |-> [piece |-> "max", t |-> 0],
     values_ |-> <<>>,
     nodal_corrections_ |-> <<>>,
     x1_ |-> DblMax, x2_ |-> DblMax, y1_ |-> DblMax, y2_ |-> DblMax]

\* The wave of a constituent at a grid node: a fixed field of harmonic
\* constants, different at every node and for every constituent.
WaveValue(c, i, j) ==
    CInt(10 * constituent_to_index(c) + 3 * i + j, i - 2 * j + constituent_to_index(c))

\* TidalModel(lon, lat) after add_constituent for every constituent of ids;
\* ids is the order in which data_ (an unordered_map) is iterated, nan[c] the
\* nodes at which the wave of c is NaN.
TidalModel(lon, lat, ids, nan) ==
    [lon_ |-> lon, lat_ |-> lat, ids |-> ids, nan |-> nan]

\* Grid<std::complex<T>>::operator()(i, j) on the wave of c: the value at
\* longitude index i and latitude index j, whatever the storage order.
grid(m, c, i, j) ==
    IF <<i, j>> \in m.nan[c] THEN undefined_value ELSE WaveValue(c, i, j)

\* The quality set from n at the end of interpolate.
QualityOf(n) ==
    IF n = kInterpolated THEN kInterpolated
    ELSE IF n = kExtrapolated3 THEN kExtrapolated3
    ELSE IF n = kExtrapolated2 THEN kExtrapolated2
    ELSE IF n = kExtrapolated1 THEN kExtrapolated1
    ELSE kUndefined

\* reset_values_to_undefined: a NaN entry for every constituent of the model
\* is appended to the values the accelerator holds.
reset_values_to_undefined(m, values) ==
    values \o [k \in 1..Len(m.ids) |-> <<m.ids[k], undefined_value>>]

\* The bilinear weights interpolate computes for a cell.
CellWeights(lon, lat, x1, x2, y1, y2) ==
    bilinear_weights(normalize_angle(lon, x1, Circle), lat, x1, y1,
                     normalize_angle(x2, x1, Circle), y2)

RECURSIVE CellValues(_, _, _, _)
\* The loop of interpolate over the first k constituents of data_, were it
\* never left early: the interpolated value of each, with n.
CellValues(m, w, cell, k) ==
    IF k = 0 THEN <<>>
    ELSE Append(CellValues(m, w, cell, k - 1),
                bilinear_interpolation(w,
                    grid(m, m.ids[k], cell[1], cell[3]), grid(m, m.ids[k], cell[1], cell[4]),
                    grid(m, m.ids[k], cell[2], cell[3]), grid(m, m.ids[k], cell[2], cell[4])))

\* The first k interpolated values as accelerator entries.
Entries(m, vals, k) == [e \in 1..k |-> <<m.ids[e], vals[e].value>>]

\* The end of interpolate: the loop is left at the first NaN value, after
\* which a NaN entry per constituent follows the values already stored;
\* otherwise the quality is set from the n of the last constituent.
InterpolateLoop(m, cell, wxy, vals, bad) ==
    IF bad # {}
    THEN [values_ |-> reset_values_to_undefined(m,
                          Entries(m, vals, (CHOOSE k \in bad : \A k2 \in bad : k <= k2) - 1)),
          quality |-> {kUndefined}, path |-> "nan", cell |-> cell, wxy |-> wxy]
    ELSE [values_ |-> Entries(m, vals, Len(m.ids)),
          quality |-> {QualityOf(IF Len(m.ids) = 0 THEN 0 ELSE vals[Len(m.ids)].n)},
          path |-> "computed", cell |-> cell, wxy |-> wxy]

InterpolateValues(m, cell, wxy, vals) ==
    InterpolateLoop(m, cell, wxy, vals, { k \in 1..Len(m.ids) : vals[k].value.nan })

\* interpolate once the cell <<i1, i2, j1, j2>> and its corners are known:
\* values cached for the same cell are returned as they are, with the
\* quality left as the caller declared it, unset.
InterpolateCell(m, lon, lat, a, cell, x1, x2, y1, y2) ==
    IF x1 = a.x1_ /\ x2 = a.x2_ /\ y1 = a.y1_ /\ y2 = a.y2_
    THEN [values_ |-> a.values_, quality |-> QualitySet, path |-> "cached",
          cell |-> cell, wxy |-> <<>>]
    ELSE InterpolateValues(m, cell, CellWeights(lon, lat, x1, x2, y1, y2),
                           CellValues(m, CellWeights(lon, lat, x1, x2, y1, y2),
                                      cell, Len(m.ids)))

InterpolateIndexed(m, lon, lat, a, lon_index, lat_index) ==
    IF lon_index = <<>> \/ lat_index = <<>>
    THEN [values_ |-> reset_values_to_undefined(m, <<>>),
          quality |-> {kUndefined}, path |-> "outside",
          cell |-> <<>>, wxy |-> <<>>]
    ELSE InterpolateCell(m, lon, lat, a,
                         <<lon_index[1], lon_index[2], lat_index[1], lat_index[2]>>,
                         value(m.lon_, lon_index[1]), value(m.lon_, lon_index[2]),
                         value(m.lat_, lat_index[1]), value(m.lat_, lat_index[2]))

\* A variant that does not remove the values of the calls before.
interpolate_KeepingValues(m, lon, lat, a) ==
    [InterpolateIndexed(m, lon, lat, a,
                        find_indices(m.lon_, lon), find_indices(m.lat_, lat))
        EXCEPT !.values_ = a.values_ \o @]

\* TidalModel::interpolate(lon, lat, quality, acc): the accelerator's values
\* afterwards, the qualities the call can return (more than one only where
\* quality is returned without having been set), and the locals of the call.
interpolate(m, lon, lat, a) ==
    InterpolateIndexed(m, lon, lat, a,
                       find_indices(m.lon_, lon), find_indices(m.lat_, lat))

\* A variant in which the first entry of a constituent is the one stored.
StoreValues_KeepFirst(t, values, k) ==
    [t EXCEPT !.items_ =
        [i \in 1..kNumConstituents |->
            IF \E e \in 1..k : values[e][1] = t.keys_[i]
            THEN [t.items_[i] EXCEPT !.tide =
                    values[CHOOSE e \in 1..k :
                              /\ values[e][1] = t.keys_[i]
                              /\ \A e2 \in 1..k : values[e2][1] = t.keys_[i] => e <= e2][2]]
            ELSE t.items_[i]]]

RECURSIVE StoreValues(_, _, _)
\* The loop of TidalModel::interpolate(lon, lat, table, acc): the first k
\* entries of the values are stored into the table, in order.
StoreValues(t, values, k) ==
    IF k = 0 THEN t
    ELSE SetTide(StoreValues(t, values, k - 1), values[k][1], values[k][2])

----------------------------------------------------------------------------
(* datetime.hpp, delta_time.hpp, doodson.hpp, nodal_corrections.hpp.
   Times are counted in ticks of a quarter of a day (6 hours), epochs in
   ticks since 1970-01-01 and dates in ticks of Modified Julian Date; the
   astronomical angles are whole degrees. *)

TicksPerDay == 24 \div 6

\* C++ x / y on integers: the quotient is truncated toward zero.
TruncDiv(x, y) == Sign(x) * Sign(y) * (Abs(x) \div Abs(y))

\* epoch_to_modified_julian_date: the whole days, the fractional part of the
\* day divided by the length of the day as integers, and the 40587 days
\* from 1858-11-17 to 1970-01-01.
epoch_to_modified_julian_date(epoch) ==
    TicksPerDay * TruncDiv(epoch, TicksPerDay)
        + TicksPerDay * TruncDiv(TruncRem(epoch, TicksPerDay), TicksPerDay)
        + TicksPerDay * 40587

\* A variant that takes the whole part of the fractional year.
DeltaYear_Floor(time) == ((time - 60078) \div 1461) + 1900

\* The year of calculate_delta_time for a Modified Julian Date:
\* round((tj - 2415020) / 365.25) + 1900 with tj = time + 2400000.5.  In
\* ticks, tj - 2415020 is (time - 60078) / 4 days and 365.25 days are 1461.
DeltaYear(time) == RoundDiv(time - 60078, 1461) + 1900

\* The polynomial piece calculate_delta_time takes for the year y, with the
\* argument t of that piece.
DeltaPiece(y) ==
    IF y >= 2050 THEN [piece |-> "2050", t |-> y]
    ELSE IF y >= 2005 THEN [piece |-> "2005", t |-> y - 2000]
    ELSE IF y >= 1986 THEN [piece |-> "1986", t |-> y - 2000]
    ELSE IF y >= 1961 THEN [piece |-> "1961", t |-> y - 1975]
    ELSE IF y >= 1941 THEN [piece |-> "1941", t |-> y - 1950]
    ELSE IF y >= 1920 THEN [piece |-> "1920", t |-> y - 1920]
    ELSE IF y >= 1900 THEN [piece |-> "1900", t |-> y - 1900]
    ELSE IF y >= 1860 THEN [piece |-> "1860", t |-> y - 1860]
    ELSE IF y >= 1800 THEN [piece |-> "1800", t |-> y - 1800]
    ELSE [piece |-> "1700", t |-> y - 1700]

\* A variant of the range test that accepts the years from 1600.
DeltaInRange_From1600(y) == ~(y < 1600 \/ y > 2150)

\* The range test of calculate_delta_time.
DeltaInRange(y) == ~(y < 1700 \/ y > 2150)

\* calculate_delta_time(time + kModifiedJulianEpoch): std::out_of_range is
\* thrown outside the range, otherwise the value is that of a polynomial in
\* the year, kept as the piece and its argument.
calculate_delta_time(time) ==
    IF DeltaInRange(DeltaYear(time))
    THEN [thrown |-> FALSE, value |-> DeltaPiece(DeltaYear(time))]
    ELSE [thrown |-> TRUE, value |-> [piece |-> "none", t |-> 0]]

\* normalize_angle(x) with its default range [-180, 180).
NormalizeDegrees(x) == FRemainder(x + 180, 360) - 180

\* fundarg and the sums of calculate_celestial_vector on the lattice: each
\* slow angle s, h, p, N', ps is a multiple of 90 degrees that depends on the
\* day; Delta-T moves the time by about a minute, below the lattice's step.
SlowAngle(k, time, delta) == 90 * ((TruncDiv(time, TicksPerDay) \div k) % 4)

\* calculate_celestial_vector: <<tau, s, h, p, N', ps>> in degrees, with
\* tsolar = (time - static_cast<int>(time)) * 360 degrees.
calculate_celestial_vector(time, delta) ==
    [k \in 1..6 |->
        NormalizeDegrees(
            IF k = 1
            THEN (360 \div TicksPerDay) * TruncRem(time, TicksPerDay)
                   - SlowAngle(1, time, delta) + SlowAngle(2, time, delta)
            ELSE SlowAngle(k - 1, time, delta))]

Dot7(d, beta) ==
    d[1] * beta[1] + d[2] * beta[2] + d[3] * beta[3] + d[4] * beta[4]
        + d[5] * beta[5] + d[6] * beta[6] + d[7] * beta[7]

\* calculate_doodson_argument
calculate_doodson_argument(time, delta, doodson_number) ==
    NormalizeDegrees(Dot7(doodson_number, calculate_celestial_vector(time, delta) \o <<90>>))

\* compute_nodal_corrections(omega, perigee, constituents): f and u of each
\* constituent, on the lattice a factor 1 or 2 and a multiple of 90 degrees
\* that depend on the constituent and on the two angles.
compute_nodal_corrections(omega, perigee, constituents) ==
    [k \in 1..Len(constituents) |->
        [f |-> 1 + ((constituent_to_index(constituents[k]) + (omega + perigee) \div 90) % 2),
         u |-> 90 * ((constituent_to_index(constituents[k]) + omega \div 90) % 4)]]

\* compute_nodal_corrections(perihelion, omega, perigee, hsolar,
\* constituents): the group modulations, which also depend on the sun.
compute_group_corrections(perihelion, omega, perigee, hsolar, constituents) ==
    [k \in 1..Len(constituents) |->
        [f |-> 1 + ((constituent_to_index(constituents[k]) + (omega + perigee + hsolar) \div 90) % 2),
         u |-> 90 * ((constituent_to_index(constituents[k]) + (omega + perihelion) \div 90) % 4)]]

----------------------------------------------------------------------------
(* tidal_model.cpp: Accelerator::update_args *)

\* std::abs(time - time_) < time_tolerance_, both times in days and the
\* tolerance compared with their difference as it is; the initial time_ is
\* further from every time than any finite tolerance, and the difference,
\* a finite number, is below an infinite tolerance even then.
WithinTolerance(a, time) ==
    IF a.time_tolerance_ = kInfinity THEN TRUE
    ELSE a.time_ # DblMax /\ Abs(time - a.time_) < TicksPerDay * a.time_tolerance_

\* update_args from the nodal corrections on, Delta-T being known.
UpdateArgsStore(a, time, modulations, t, delta, args) ==
    [acc |-> [a EXCEPT
                !.time_ = time,
                !.delta_ = delta,
                !.nodal_corrections_ =
                    IF modulations
                    THEN compute_group_corrections(args[6], -args[5], args[4], args[3], t.keys_)
                    ELSE compute_nodal_corrections(-args[5], args[4], t.keys_)],
     table |-> [t EXCEPT !.items_ =
                  [k \in 1..kNumConstituents |->
                      [t.items_[k] EXCEPT !.tidal_argument =
                          calculate_doodson_argument(time, delta, t.items_[k].doodson_number)]]],
     thrown |-> FALSE, recomputed |-> TRUE]

\* update_args after time_ = time: the exception of calculate_delta_time
\* leaves the function there.
UpdateArgsDelta(a, time, modulations, t, delta) ==
    IF delta.thrown
    THEN [acc |-> [a EXCEPT !.time_ = time], table |-> t,
          thrown |-> TRUE, recomputed |-> FALSE]
    ELSE UpdateArgsStore(a, time, modulations, t, delta.value,
                         calculate_celestial_vector(time, delta.value))

\* Accelerator::update_args(time, group_modulations, table)
update_args(a, time, modulations, t) ==
    IF WithinTolerance(a, time)
    THEN [acc |-> a, table |-> t, thrown |-> FALSE, recomputed |-> FALSE]
    ELSE UpdateArgsDelta(a, time, modulations, t, calculate_delta_time(time))

----------------------------------------------------------------------------
(* tide.hpp: Perth<T>::evaluate_tide and Perth<T>::evaluate *)

\* A double: a finite value or NaN.
DVal(r) == [nan |-> FALSE, v |-> r]

DNaN == [nan |-> TRUE, v |-> RZero]

DAdd(a, b) == IF a.nan \/ b.nan THEN DNaN ELSE DVal(RAdd(a.v, b.v))

\* std::cos(radians(x)) and std::sin(radians(x)) for x a multiple of 90.
Cos90(x) == CASE x % 360 = 0 -> 1 [] x % 360 = 180 -> -1 [] OTHER -> 0

Sin90(x) == CASE x % 360 = 90 -> 1 [] x % 360 = 270 -> -1 [] OTHER -> 0

\* A variant of Contribution in which the imaginary part enters with a
\* minus sign.
Contribution_MinusImag(z, f, x) ==
    IF z.nan THEN DNaN
    ELSE DVal(RSub(RMul(RMul(z.re, RInt(f)), RInt(Cos90(x))),
                   RMul(RMul(z.im, RInt(f)), RInt(Sin90(x)))))

\* h = real * f * cos(x) + imag * f * sin(x)
Contribution(z, f, x) ==
    IF z.nan THEN DNaN
    ELSE DVal(RAdd(RMul(RMul(z.re, RInt(f)), RInt(Cos90(x))),
                   RMul(RMul(z.im, RInt(f)), RInt(Sin90(x)))))

\* h of the constituent at index ix of the table.
ContributionAt(t, nc, ix) ==
    Contribution(t.items_[ix].tide, nc[ix].f, t.items_[ix].tidal_argument + nc[ix].u)

\* A variant of AddContribution that adds every contribution to tide.
AddContribution_AllToTide(sums, type, h) ==
    [sums EXCEPT !.tide = DAdd(@, h), !.h = Append(@, h)]

\* One turn of the loop of evaluate_tide: h is added to tide_lp for a
\* long-period constituent and to tide otherwise.
AddContribution(sums, type, h) ==
    IF type = "kLongPeriod"
    THEN [sums EXCEPT !.tide_lp = DAdd(@, h), !.h = Append(@, h)]
    ELSE [sums EXCEPT !.tide = DAdd(@, h), !.h = Append(@, h)]

RECURSIVE SumTide(_, _, _)
\* The sums of evaluate_tide after the first k constituents of the table,
\* with the contributions h added so far.
SumTide(t, nc, k) ==
    IF k = 0 THEN [tide |-> DVal(RZero), tide_lp |-> DVal(RZero), h |-> <<>>]
    ELSE AddContribution(SumTide(t, nc, k - 1), t.items_[k].type, ContributionAt(t, nc, k))

\* The loop of evaluate_tide reads nodal_corrections()[ix] for every index
\* of the table: past the end of the vector when it is shorter.
ReadsPastEnd(a) == Len(a.nodal_corrections_) < kNumConstituents

\* evaluate_tide after update_args: the exception is passed on, otherwise
\* the constituents of the table are summed; the sums of a loop that reads
\* past the end of the nodal corrections are left to EvaluateTideOn.
EvaluateTideSum(q, u, time_before) ==
    [acc |-> u.acc, table |-> u.table, thrown |-> u.thrown, quality |-> q,
     log |-> [undefined |-> FALSE, time_before |-> time_before,
              recomputed |-> u.recomputed],
     sums |-> IF u.thrown \/ ReadsPastEnd(u.acc)
              THEN [tide |-> DNaN, tide_lp |-> DNaN, h |-> <<>>]
              ELSE SumTide(u.table, u.acc.nodal_corrections_, kNumConstituents)]

\* A variant of EvaluateTideWith that returns zeros, not NaN, for an
\* Undefined point.
EvaluateTideWith_ZeroWhenUndefined(q, a, t, time, modulations) ==
    IF q = kUndefined
    THEN [acc |-> a, table |-> t, thrown |-> FALSE, quality |-> q,
          log |-> [undefined |-> TRUE, time_before |-> a.time_, recomputed |-> FALSE],
          sums |-> [tide |-> DVal(RZero), tide_lp |-> DVal(RZero), h |-> <<>>]]
    ELSE EvaluateTideSum(q, update_args(a, time, modulations, t), a.time_)

\* evaluate_tide after the interpolation, which returned the quality q and
\* left the accelerator a and the table t; no inference is asked for.
EvaluateTideWith(q, a, t, time, modulations) ==
    IF q = kUndefined
    THEN [acc |-> a, table |-> t, thrown |-> FALSE, quality |-> q,
          log |-> [undefined |-> TRUE, time_before |-> a.time_, recomputed |-> FALSE],
          sums |-> [tide |-> DNaN, tide_lp |-> DNaN, h |-> <<>>]]
    ELSE EvaluateTideSum(q, update_args(a, time, modulations, t), a.time_)

\* What a read past the end of the nodal corrections can yield: any factor
\* and any angle for every constituent.
StrayCorrections ==
    { [k \in 1..kNumConstituents |-> [f |-> f, u |-> u]] : f \in {0, 3}, u \in {0, 90} }

\* The outcomes of a call that went as o says: o itself, unless its loop
\* read past the end of the nodal corrections, which is undefined
\* behaviour: the process is ended by the invalid read, or the loop sums
\* with whatever the read yields.
Outcomes(o) ==
    IF ~o.log.undefined /\ ~o.thrown /\ ReadsPastEnd(o.acc)
    THEN { [acc |-> o.acc, table |-> o.table, thrown |-> FALSE, quality |-> o.quality,
            log |-> o.log, sums |-> o.sums, fault |-> TRUE] }
         \cup
         { [acc |-> o.acc, table |-> o.table, thrown |-> FALSE, quality |-> o.quality,
            log |-> o.log, sums |-> SumTide(o.table, nc, kNumConstituents),
            fault |-> FALSE] : nc \in StrayCorrections }
    ELSE { [acc |-> o.acc, table |-> o.table, thrown |-> o.thrown, quality |-> o.quality,
            log |-> o.log, sums |-> o.sums, fault |-> FALSE] }

EvaluateTideOn(r, a, t, time, modulations) ==
    UNION { Outcomes(EvaluateTideWith(q, [a EXCEPT !.values_ = r.values_],
                                      StoreValues(t, r.values_, Len(r.values_)),
                                      time, modulations)) : q \in r.quality }

\* Perth<T>::evaluate_tide(lon, lat, time, tide_table, nullptr, acc): the
\* outcomes of the call.
evaluate_tide(m, lon, lat, time, t, a, modulations) ==
    EvaluateTideOn(interpolate(m, lon, lat, a), a, t, time, modulations)

----------------------------------------------------------------------------
(* Specification of the interpolation: one model, one accelerator and one
   tide table, queried again and again through
   TidalModel::interpolate(lon, lat, table, acc). *)

\* Nodes whose wave is NaN: none, one corner, two corners of a row, three
\* corners of the first cell, the four corners of the first cell.
NanMasks ==
    { {},
      {<<1, 1>>},
      {<<1, 1>>, <<2, 1>>},
      {<<0, 0>>, <<0, 1>>, <<1, 0>>},
      {<<0, 0>>, <<0, 1>>, <<1, 0>>, <<1, 1>>} }

LonAxes ==
    { MakeAxis(Deg(-180, 0), Deg(90, 0), 4, TRUE),
      MakeAxis(Deg(180, 0), Deg(-90, 0), 4, TRUE),
      MakeAxis(Deg(-90, 0), Deg(90, 0), 3, FALSE) }

LatAscending == MakeAxis(Deg(-90, 0), Deg(90, 0), 3, FALSE)

LatDescending == MakeAxis(Deg(90, 0), Deg(-90, 0), 3, FALSE)

\* Models of one constituent on every longitude axis, with every mask on the
\* ascending latitude axis and two masks on the descending one, and models
\* of three constituents of which only the second has NaN nodes.
ModelSet ==
    { TidalModel(lo, LatAscending, <<"M2">>, [c \in {"M2"} |-> mask]) :
        lo \in LonAxes, mask \in NanMasks }
    \cup
    { TidalModel(lo, LatDescending, <<"K1">>, [c \in {"K1"} |-> mask]) :
        lo \in LonAxes, mask \in {{}, {<<1, 1>>}} }
    \cup
    { TidalModel(lo, LatAscending, <<"Mf", "M2", "Node">>,
                 [c \in {"Mf", "M2", "Node"} |->
                     IF c = "M2" THEN {<<1, 1>>, <<2, 1>>} ELSE {}]) :
        lo \in LonAxes }

LonSet == { Deg(45 * k, 0) : k \in (-4 * MaxTurns)..(4 * MaxTurns) }

LatSet == { Deg(-135, 0), Deg(-45, 0), Deg(0, 0), Deg(45, 0), Deg(90, 0) }

\* Queries of which two are in the same cell of every longitude axis, and
\* two in the same cell of the latitude axes, with one outside the latter.
HistoryLons == { Deg(0, 0), Deg(45, 0), Deg(135, 0) }

HistoryLats == { Deg(-135, 0), Deg(-45, 0), Deg(0, 0), Deg(45, 0) }

QueryLons == IF apc = "history" THEN HistoryLons ELSE LonSet

QueryLats == IF apc = "history" THEN HistoryLats ELSE LatSet

NoCall == [lon |-> 0, lat |-> 0, quality |-> kUndefined, path |-> "none",
           cell |-> <<>>, wxy |-> <<>>]

InterpInit ==
    /\ axis = <<>>
    /\ coord = 0
    /\ found = <<>>
    /\ apc = "interp"
    /\ model \in ModelSet
    /\ acc = Accelerator(0)
    /\ table = make_tide_table(model.ids)
    /\ call = NoCall
    /\ group_modulations = FALSE /\ ev = <<>> /\ hist = <<>>
    /\ last = [capacity |-> Len(model.ids)]

\* values_.capacity() once the vector holds size entries: a vector that is
\* full is reallocated by emplace_back to a capacity the library chooses,
\* the size needed at least, and clear() gives nothing back.
Grown(capacity, size) ==
    IF size <= capacity THEN {capacity} ELSE {size, 2 * capacity}

\* TidalModel::interpolate(lon, lat, table, acc): the values are computed
\* into the accelerator and copied into the table; the quality is returned.
\* The accelerator was made for the constituents of the model; the capacity
\* of its values, which Accelerator::size() returns, is kept in last.
\* Where the calls are followed one after the other, hist holds the call
\* before the last one.
Interpolate ==
    \E lon \in QueryLons, lat \in QueryLats :
        \E r \in {interpolate(model, lon, lat, acc)} :
            \E q \in r.quality, capacity \in Grown(last.capacity, Len(r.values_)) :
                /\ acc' = [acc EXCEPT !.values_ = r.values_]
                /\ table' = StoreValues(table, r.values_, Len(r.values_))
                /\ call' = [lon |-> lon, lat |-> lat, quality |-> q,
                            path |-> r.path, cell |-> r.cell, wxy |-> r.wxy]
                /\ last' = [capacity |-> capacity]
                /\ hist' = IF apc = "history" THEN <<call>> ELSE hist
                /\ UNCHANGED <<avars, model, group_modulations, ev>>

SpecInterp == InterpInit /\ [][Interpolate]_vars

\* The same calls, each remembered while the next one is made.
HistoryInit ==
    /\ axis = <<>>
    /\ coord = 0
    /\ found = <<>>
    /\ apc = "history"
    /\ model \in ModelSet
    /\ acc = Accelerator(0)
    /\ table = make_tide_table(model.ids)
    /\ call = NoCall
    /\ group_modulations = FALSE /\ ev = <<>> /\ hist = <<>>
    /\ last = [capacity |-> Len(model.ids)]

SpecHistory == HistoryInit /\ [][Interpolate]_vars

----------------------------------------------------------------------------
(* Claims about the interpolation *)

\* The last call found a cell on both axes and ran the interpolation loop.
InCell == call.path \in {"nan", "computed"}

\* The corners of a cell in the order z11, z12, z21, z22.
CellCorners(cell) ==
    << <<cell[1], cell[3]>>, <<cell[1], cell[4]>>,
       <<cell[2], cell[3]>>, <<cell[2], cell[4]>> >>

\* The weight given to each corner, in the same order.
CornerWeights(w) ==
    << RMul(w[1], w[3]), RMul(w[1], w[4]), RMul(w[2], w[3]), RMul(w[2], w[4]) >>

\* The corners of the cell at which every constituent of the model is finite.
FiniteCorners(m, cell) ==
    { k \in 1..4 : \A c \in SeqRange(m.ids) : CellCorners(cell)[k] \notin m.nan[c] }

SharedValidity(m) == \A c1, c2 \in SeqRange(m.ids) : m.nan[c1] = m.nan[c2]

WeightIf(F, cw, k) == IF k \in F THEN cw[k] ELSE RZero

\* The sum of the weights of the corners in F.
WeightOn(F, cw) ==
    RAdd(RAdd(WeightIf(F, cw, 1), WeightIf(F, cw, 2)),
         RAdd(WeightIf(F, cw, 3), WeightIf(F, cw, 4)))

\* C6 (as stated): for a query inside the grid of a model whose constituents
\* share their corner validity, the quality returned equals the number of
\* finite corners of the cell.
C6_QualityIsFiniteCount ==
    (InCell /\ SharedValidity(model))
        => call.quality = Cardinality(FiniteCorners(model, call.cell))

\* C6 (amended): the quality returned equals the number of finite corners of
\* the cell when the weights of those corners do not sum to zero, and is
\* Undefined (0) when they do, whatever the number of finite corners.
C6_QualityOfUsedCorners ==
    (InCell /\ SharedValidity(model))
        => call.quality =
             IF WeightOn(FiniteCorners(model, call.cell), CornerWeights(call.wxy)) # RZero
             THEN Cardinality(FiniteCorners(model, call.cell))
             ELSE kUndefined

\* C6 witness: a query in a cell with one NaN corner returned Extrapolated3.
C6_Witness ==
    /\ InCell /\ SharedValidity(model)
    /\ Cardinality(FiniteCorners(model, call.cell)) = 3
    /\ call.quality = kExtrapolated3

InUnit(r) == RLeq(RZero, r) /\ RLeq(r, ROne)

\* C10: whenever both axes return a cell whose four corners are all finite,
\* the four bilinear weights are each within [0, 1] and sum to 1, so that
\* every interpolated value lies in the convex hull of the corner values.
C10_ConvexWeights ==
    (InCell /\ Cardinality(FiniteCorners(model, call.cell)) = 4)
        => /\ \A k \in 1..4 : InUnit(CornerWeights(call.wxy)[k])
           /\ WeightOn(1..4, CornerWeights(call.wxy)) = ROne

----------------------------------------------------------------------------
(* Specification of the evaluator: a Perth object is built on a model and
   evaluate is called on a batch of points.  The points of the batch are
   drawn when the loop reaches them. *)

\* Batches hold up to MaxBatch points.
MaxBatch == 2

\* A model on a non-periodic longitude axis whose first cell is NaN for
\* every constituent, and a model on a periodic axis with one NaN node.
EvalModels ==
    { TidalModel(MakeAxis(Deg(-90, 0), Deg(90, 0), 3, FALSE), LatAscending,
                 <<"Mf", "K1", "M2">>,
                 [c \in {"Mf", "K1", "M2"} |->
                     {<<0, 0>>, <<0, 1>>, <<1, 0>>, <<1, 1>>}]),
      TidalModel(MakeAxis(Deg(-180, 0), Deg(90, 0), 4, TRUE), LatAscending,
                 <<"M2", "Node">>,
                 [c \in {"M2", "Node"} |-> {<<1, 1>>}]) }

\* <<lon, lat>>: in a finite cell of both models; in the NaN cell of the
\* first model; east of the non-periodic axis.
PointSet ==
    { <<Deg(45, 0), Deg(45, 0)>>, <<Deg(-45, 0), Deg(-45, 0)>>,
      <<Deg(135, 0), Deg(0, 0)>> }

\* The epoch of a day counted from 1970-01-01, at a quarter of that day.
Epoch(days, quarter) == TicksPerDay * days + quarter

\* 1699-06-29 and 1699-06-30, the last day whose Delta-T year is 1699 and
\* the first whose Delta-T year is 1700; 2000-01-01 at 00:00 and at 06:00;
\* 2000-01-02; 2160-01-01.
TimeSet ==
    { Epoch(-98801, 0), Epoch(-98800, 0), Epoch(10957, 0), Epoch(10957, 1),
      Epoch(10958, 0), Epoch(69396, 0) }

ToleranceSet == {0, 1, 60}

\* The tolerances of a call: the finite ones, and every double where the
\* evaluator was built for any tolerance.
Tolerances == IF apc = "eval_any" THEN ToleranceSet \cup {kInfinity} ELSE ToleranceSet

Idle ==
    [pc |-> "idle", error |-> "", size |-> 0, ix |-> 0, time_tolerance |-> 0,
     lon |-> <<>>, lat |-> <<>>, time |-> <<>>,
     tide |-> <<>>, tide_lp |-> <<>>, quality |-> <<>>]

\* Perth(tidal_model, group_modulations)
Init ==
    /\ axis = <<>>
    /\ coord = 0
    /\ found = <<>>
    /\ apc = "eval"
    /\ model \in EvalModels
    /\ group_modulations \in BOOLEAN
    /\ acc = <<>>
    /\ table = <<>>
    /\ call = NoCall
    /\ ev = Idle
    /\ hist = <<>>
    /\ last = <<>>

\* The entry of evaluate: the sizes are compared, the outputs are zeroed,
\* the tide table and the accelerator are made.
EvaluateCall ==
    /\ ev.pc = "idle"
    /\ \E size \in 0..MaxBatch, lat_size \in 0..MaxBatch, time_size \in 0..MaxBatch,
          time_tolerance \in Tolerances :
          IF size # lat_size \/ size # time_size
          THEN /\ ev' = [ev EXCEPT !.pc = "failed", !.error = "invalid_argument"]
               /\ UNCHANGED <<acc, table>>
          ELSE /\ ev' = [ev EXCEPT !.pc = "loop", !.size = size,
                                   !.time_tolerance = time_tolerance,
                                   !.tide = [k \in 1..size |-> DVal(RZero)],
                                   !.tide_lp = [k \in 1..size |-> DVal(RZero)],
                                   !.quality = [k \in 1..size |-> 0]]
               /\ table' = make_tide_table(model.ids)
               /\ acc' = Accelerator(time_tolerance)
    /\ UNCHANGED <<avars, model, call, group_modulations, hist, last>>

\* One turn of the loop of evaluate: evaluate_tide on the point at index
\* ix, whose results are stored at ix unless the call throws.
EvaluateStep ==
    /\ ev.pc = "loop"
    /\ ev.ix < ev.size
    /\ \E p \in PointSet, epoch \in TimeSet :
         \E r \in {interpolate(model, p[1], p[2], acc)} :
           \E o \in EvaluateTideOn(r, acc, table,
                                   epoch_to_modified_julian_date(epoch),
                                   group_modulations) :
              /\ acc' = o.acc
              /\ table' = o.table
              /\ call' = [lon |-> p[1], lat |-> p[2], quality |-> o.quality,
                          path |-> r.path, cell |-> r.cell, wxy |-> r.wxy]
              /\ hist' = Append(hist, [undefined |-> o.log.undefined,
                                       time_before |-> o.log.time_before,
                                       recomputed |-> o.log.recomputed,
                                       thrown |-> o.thrown, h |-> o.sums.h])
              /\ ev' = IF o.fault
                       THEN [ev EXCEPT !.pc = "failed", !.error = "invalid_read",
                                       !.lon = Append(@, p[1]), !.lat = Append(@, p[2]),
                                       !.time = Append(@, epoch)]
                       ELSE IF o.thrown
                       THEN [ev EXCEPT !.pc = "failed", !.error = "out_of_range",
                                       !.lon = Append(@, p[1]), !.lat = Append(@, p[2]),
                                       !.time = Append(@, epoch)]
                       ELSE [ev EXCEPT !.ix = @ + 1,
                                       !.lon = Append(@, p[1]), !.lat = Append(@, p[2]),
                                       !.time = Append(@, epoch),
                                       !.tide[ev.ix + 1] = o.sums.tide,
                                       !.tide_lp[ev.ix + 1] = o.sums.tide_lp,
                                       !.quality[ev.ix + 1] = o.quality]
    /\ UNCHANGED <<avars, model, group_modulations, last>>

\* The end of the loop: the three vectors are returned.
EvaluateReturn ==
    /\ ev.pc = "loop"
    /\ ev.ix = ev.size
    /\ ev' = [ev EXCEPT !.pc = "done"]
    /\ UNCHANGED <<avars, ivars, group_modulations, hist, last>>

Next == EvaluateCall \/ EvaluateStep \/ EvaluateReturn

Spec == Init /\ [][Next]_vars

\* The evaluator called with any time_tolerance, infinity included.
AnyToleranceInit ==
    /\ axis = <<>>
    /\ coord = 0
    /\ found = <<>>
    /\ apc = "eval_any"
    /\ model \in EvalModels
    /\ group_modulations \in BOOLEAN
    /\ acc = <<>>
    /\ table = <<>>
    /\ call = NoCall
    /\ ev = Idle
    /\ hist = <<>>
    /\ last = <<>>

SpecAnyTolerance == AnyToleranceInit /\ [][Next]_vars

----------------------------------------------------------------------------
(* Claims about the evaluator *)

\* The points evaluate has reached, and those whose results it has stored.
Reached == 1..Len(hist)

Stored == 1..ev.ix

\* The coordinate lies strictly outside the range of a non-periodic axis.
OutsideRange(a, x) == ~a.is_periodic_ /\ (x < min_value(a) \/ x > max_value(a))

\* The Modified Julian Date evaluate passes on for the point k.
TimeOf(k) == epoch_to_modified_julian_date(ev.time[k])

\* C1: in evaluate, a point outside a non-periodic axis is Undefined; every
\* Undefined point gets quality 0 and NaN for tide and tide_lp at its own
\* position and never aborts the batch; every other stored point has its own
\* quality and finite sums at its position, and the positions not reached
\* yet still hold the initial zeros.
C1_UndefinedPoints ==
    ev.pc \in {"loop", "done", "failed"} /\ ev.error # "invalid_argument" =>
        /\ \A k \in Reached :
              (OutsideRange(model.lon_, ev.lon[k]) \/ OutsideRange(model.lat_, ev.lat[k]))
                  => hist[k].undefined
        /\ \A k \in Reached :
              hist[k].undefined =>
                  /\ ~hist[k].thrown
                  /\ k \in Stored
                  /\ ev.quality[k] = 0 /\ ev.tide[k].nan /\ ev.tide_lp[k].nan
        /\ \A k \in Stored :
              ~hist[k].undefined =>
                  /\ ev.quality[k] \in 1..4
                  /\ ~ev.tide[k].nan /\ ~ev.tide_lp[k].nan
        /\ \A k \in (ev.ix + 1)..ev.size :
              ev.quality[k] = 0 /\ ev.tide[k] = DVal(RZero) /\ ev.tide_lp[k] = DVal(RZero)

\* C1 witness: a batch of two points has returned, the first outside the
\* longitude axis with quality 0 and NaN, the second evaluated from the
\* three finite corners of its cell.
C1_Witness ==
    /\ ev.pc = "done" /\ ev.size = 2
    /\ OutsideRange(model.lon_, ev.lon[1])
    /\ ev.quality[1] = 0 /\ ev.tide[1].nan /\ ev.tide_lp[1].nan
    /\ ev.quality[2] = kExtrapolated3 /\ ~ev.tide[2].nan

\* The calendar year (proleptic Gregorian) of an epoch.
CalendarYear(epoch) ==
    LET z == (epoch \div TicksPerDay) + 719468
        era == z \div 146097
        doe == z - era * 146097
        yoe == (doe - doe \div 1460 + doe \div 36524 - doe \div 146096) \div 365
        doy == doe - (365 * yoe + yoe \div 4 - yoe \div 100)
        mp == (5 * doy + 2) \div 153
    IN  yoe + era * 400 + (IF mp < 10 THEN 0 ELSE 1)

Failed == ev.pc = "failed" /\ ev.error = "out_of_range"

\* C2 (as stated): evaluate fails with an out-of-range error for every batch
\* that contains a point whose time lies in a year before 1700 or after
\* 2150, whatever the point's position, its place and the tolerance.
C2_FailsOutsideYears ==
    \A k \in Reached :
        (CalendarYear(ev.time[k]) < 1700 \/ CalendarYear(ev.time[k]) > 2150) => Failed

\* C2 (amended): evaluate fails with an out-of-range error at every point
\* whose interpolation is not Undefined, whose time is not within
\* time_tolerance days of the time the accelerator's state was computed for,
\* and whose Delta-T year, round((JD - 2415020) / 365.25) + 1900, is before
\* 1700 or after 2150.
C2_FailsWhenRecomputed ==
    \A k \in Reached :
        ( /\ ~hist[k].undefined
          /\ ~( /\ hist[k].time_before # DblMax
                /\ Abs(TimeOf(k) - hist[k].time_before) < TicksPerDay * ev.time_tolerance )
          /\ (DeltaYear(TimeOf(k)) < 1700 \/ DeltaYear(TimeOf(k)) > 2150) )
        => Failed /\ k = Len(hist) /\ hist[k].thrown

\* C2 witness: the second point of a batch, in a finite cell and in 2160,
\* has made evaluate fail.
C2_Witness ==
    /\ Failed /\ Len(hist) = 2
    /\ ~hist[2].undefined /\ hist[2].thrown
    /\ CalendarYear(ev.time[2]) > 2150

\* The last point reached went through the sum of evaluate_tide, so that the
\* table and the accelerator are those the sum was made from.
LastSummed == Len(hist) > 0 /\ ~hist[Len(hist)].undefined /\ ~hist[Len(hist)].thrown

CosTerm(i) ==
    RMul(RMul(table.items_[i].tide.re, RInt(acc.nodal_corrections_[i].f)),
         RInt(Cos90(table.items_[i].tidal_argument + acc.nodal_corrections_[i].u)))

SinTerm(i) ==
    RMul(RMul(table.items_[i].tide.im, RInt(acc.nodal_corrections_[i].f)),
         RInt(Sin90(table.items_[i].tidal_argument + acc.nodal_corrections_[i].u)))

RECURSIVE SumOfType(_, _, _)
\* The sum of the contributions h[1..k] of the constituents of a type.
SumOfType(h, type, k) ==
    IF k = 0 THEN DVal(RZero)
    ELSE IF kConstituents(Catalogue[k]).type = type
    THEN DAdd(SumOfType(h, type, k - 1), h[k])
    ELSE SumOfType(h, type, k - 1)

\* C4: at every evaluated point tide is the sum of the contributions of the
\* short-period constituents only and tide_lp that of the long-period
\* constituents only.
C4_SumsByType ==
    \A k \in Stored :
        ~hist[k].undefined =>
            /\ ev.tide[k] = SumOfType(hist[k].h, "kShortPeriod", kNumConstituents)
            /\ ev.tide_lp[k] = SumOfType(hist[k].h, "kLongPeriod", kNumConstituents)

\* C4 witness: a point has been stored with a non-zero contribution of a
\* long-period and of a short-period constituent.
C4_Witness ==
    \E k \in Stored :
        /\ ~hist[k].undefined
        /\ \E i, j \in 1..kNumConstituents :
              /\ kConstituents(Catalogue[i]).type = "kLongPeriod"
              /\ kConstituents(Catalogue[j]).type = "kShortPeriod"
              /\ hist[k].h[i] # DVal(RZero) /\ hist[k].h[j] # DVal(RZero)

SecondsPerTick == 86400 \div TicksPerDay

\* C5: update_args leaves the cached state unchanged exactly when the query
\* time is within time_tolerance seconds, inclusive, of the time that state
\* was computed for, and recomputes it for every time further away.
C5_ReuseWithinSeconds ==
    \A k \in Reached :
        (~hist[k].undefined /\ ~hist[k].thrown) =>
            (~hist[k].recomputed <=>
                /\ hist[k].time_before # DblMax
                /\ Abs(TimeOf(k) - hist[k].time_before)
                     <= ev.time_tolerance \div SecondsPerTick)

----------------------------------------------------------------------------
(* tidal_model.hpp: the construction of a TidalModel.  A model is built
   empty, filled by add_constituent and used by evaluations, in any order
   the caller chooses. *)

\* TidalModel(lon, lat, row_major): no constituent yet.
NewTidalModel(lon, lat, row_major) ==
    [lon_ |-> lon, lat_ |-> lat, row_major_ |-> row_major,
     ids |-> <<>>, nan |-> <<>>]

\* data_.emplace(ident, wave): nothing is stored under a key already there.
Emplace(m, ident, wave) ==
    IF ident \in SeqRange(m.ids) THEN m
    ELSE [m EXCEPT !.ids = Append(@, ident),
                   !.nan = [c \in SeqRange(m.ids) \cup {ident} |->
                               IF c = ident THEN wave.nan ELSE m.nan[c]]]

\* add_constituent after the test of the orientation: the shape is compared
\* with the axes in the order found.
AddConstituentShaped(m, ident, wave, row_major) ==
    IF row_major
    THEN IF wave.rows # m.lon_.size_ \/ wave.cols # m.lat_.size_
         THEN [model |-> m, error |-> "invalid_argument"]
         ELSE [model |-> Emplace(m, ident, wave), error |-> ""]
    ELSE IF wave.rows # m.lat_.size_ \/ wave.cols # m.lon_.size_
         THEN [model |-> m, error |-> "invalid_argument"]
         ELSE [model |-> Emplace(m, ident, wave), error |-> ""]

\* The orientation add_constituent finds for a wave.
WaveRowMajor(m, wave) ==
    wave.rows = m.lon_.size_ /\ wave.cols = m.lat_.size_

\* TidalModel::add_constituent(ident, wave): the model afterwards and the
\* error thrown, "" for none.
add_constituent(m, ident, wave) ==
    IF WaveRowMajor(m, wave) # m.row_major_
    THEN [model |-> m, error |-> "invalid_argument"]
    ELSE AddConstituentShaped(m, ident, wave, WaveRowMajor(m, wave))

\* Perth::evaluate on a batch of one point, without inference: the outcomes
\* of evaluate_tide on a new table and a new accelerator.
EvaluateOne(m, lon, lat, epoch, time_tolerance, modulations) ==
    EvaluateTideOn(interpolate(m, lon, lat, Accelerator(time_tolerance)),
                   Accelerator(time_tolerance), make_tide_table(m.ids),
                   epoch_to_modified_julian_date(epoch), modulations)

\* Grids of 3 x 3 and of 4 x 3 nodes.
BuildLonAxes ==
    { MakeAxis(Deg(-90, 0), Deg(90, 0), 3, FALSE),
      MakeAxis(Deg(-180, 0), Deg(90, 0), 4, TRUE) }

\* Waves of every shape with 3 or 4 rows and columns, without NaN or with
\* NaN at one node.
WaveSet ==
    [rows : {3, 4}, cols : {3, 4}, nan : {{}, {<<1, 1>>}}]

ModelInit ==
    /\ axis = <<>>
    /\ coord = 0
    /\ found = <<>>
    /\ apc = "model"
    /\ \E lo \in BuildLonAxes, row_major \in BOOLEAN :
          model = NewTidalModel(lo, LatAscending, row_major)
    /\ group_modulations = FALSE
    /\ acc = <<>>
    /\ table = <<>>
    /\ call = NoCall
    /\ ev = Idle
    /\ hist = <<>>
    /\ last = [op |-> "TidalModel", ident |-> "", wave |-> <<>>, error |-> "",
               before |-> <<>>]

\* A call of add_constituent, at any time in the life of the model.
AddConstituent ==
    /\ \E ident \in {"K1", "M2"}, wave \in WaveSet :
          \E r \in {add_constituent(model, ident, wave)} :
             /\ model' = r.model
             /\ last' = [op |-> "add_constituent", ident |-> ident, wave |-> wave,
                         error |-> r.error, before |-> model]
    /\ UNCHANGED <<avars, acc, table, call, evars>>

\* An evaluation of one point with the model as it is.
EvaluatePoint ==
    /\ \E p \in PointSet :
          \E o \in EvaluateOne(model, p[1], p[2], Epoch(10957, 0), 0, group_modulations) :
             /\ acc' = o.acc
             /\ table' = o.table
             /\ call' = [NoCall EXCEPT !.lon = p[1], !.lat = p[2],
                                       !.quality = o.quality, !.path = "evaluate"]
             /\ ev' = [Idle EXCEPT !.pc = "done", !.size = 1, !.ix = 1,
                                   !.lon = <<p[1]>>, !.lat = <<p[2]>>,
                                   !.time = <<Epoch(10957, 0)>>,
                                   !.tide = <<o.sums.tide>>,
                                   !.tide_lp = <<o.sums.tide_lp>>,
                                   !.quality = <<o.quality>>]
    /\ UNCHANGED <<avars, model, group_modulations, hist, last>>

SpecModel == ModelInit /\ [][AddConstituent \/ EvaluatePoint]_vars

\* C11: once a first evaluation has used the model, no later operation,
\* add_constituent included, changes its constituents or its grids.
C11_ImmutableAfterUse == [][ev.pc = "done" => model' = model]_vars

\* The shape the model declares for its waves: rows x columns.
DeclaredShape(m) ==
    IF m.row_major_ THEN <<m.lon_.size_, m.lat_.size_>>
    ELSE <<m.lat_.size_, m.lon_.size_>>

\* C13: add_constituent stores the wave exactly when its shape is the one
\* the model declares, lon.size equal to lat.size included; in every other
\* case it fails with an invalid-shape error and leaves the model unchanged.
C13_StoresDeclaredShape ==
    last.op = "add_constituent" =>
        IF <<last.wave.rows, last.wave.cols>> = DeclaredShape(last.before)
        THEN last.error = "" /\ last.ident \in SeqRange(model.ids)
        ELSE last.error = "invalid_argument" /\ model = last.before

\* ---------------------------------------------------------------------------
\* Axis construction from explicit points.
\* ---------------------------------------------------------------------------

\* A tolerance in degrees, as the fraction n / d.
Epsilon(n, d) == [n |-> n, d |-> d]

\* The default of the epsilon parameters: 1e-6.
DefaultEpsilon == Epsilon(1, 1000000)

Max2Abs(x, y) == IF Abs(x) < Abs(y) THEN Abs(y) ELSE Abs(x)

\* is_same(a, b, epsilon) for a = x / den and b = y / den ticks:
\* diff <= epsilon, or diff < max(|a|, |b|) * epsilon.
is_same(x, y, den, epsilon) ==
    \/ Abs(x - y) <= (Deg(1, 0) * epsilon.n * den) \div epsilon.d
    \/ Abs(x - y) <= (Max2Abs(x, y) * epsilon.n - 1) \div epsilon.d

\* is_evenly_spaced(points, epsilon): the increment (last - first) / (n - 1)
\* as the fraction span / den, or nothing.
is_evenly_spaced(points, epsilon) ==
    LET n == Len(points) IN
    IF n < 2 THEN [ok |-> FALSE, span |-> 0, den |-> 1]
    ELSE LET span == points[n] - points[1]
             den == n - 1
         IN IF Abs(span) <= (Deg(1, 0) * epsilon.n * den) \div epsilon.d
            THEN [ok |-> FALSE, span |-> span, den |-> den]
            ELSE [ok |-> \A ix \in 2..n :
                            is_same((points[ix] - points[ix - 1]) * den, span,
                                    den, epsilon),
                  span |-> span, den |-> den]

\* Axis::normalize_longitude: nothing for strictly monotonic points, else the
\* points with a turn added from the first crossing onwards.
Monotonic(points, ascending) ==
    \A ix \in 2..Len(points) :
        IF ascending THEN points[ix - 1] < points[ix]
        ELSE points[ix - 1] > points[ix]

Crossings(points, ascending) ==
    { ix \in 2..Len(points) :
        IF ascending THEN points[ix - 1] > points[ix]
        ELSE points[ix - 1] < points[ix] }

normalize_longitude(points) ==
    LET ascending == IF Len(points) < 2 THEN TRUE ELSE points[1] < points[2]
        cross == Crossings(points, ascending)
    IN IF Monotonic(points, ascending) THEN points
       ELSE [ix \in 1..Len(points) |->
                IF cross # {} /\ \E c \in cross : c <= ix
                THEN points[ix] + (IF ascending THEN Circle ELSE -Circle)
                ELSE points[ix]]

\* Axis::initialize(values, epsilon) on an axis built with is_periodic.
initialize(values, epsilon, is_periodic) ==
    LET increment == is_evenly_spaced(values, epsilon)
        size == Len(values)
    IN IF ~increment.ok
       THEN [error |-> "invalid_argument", axis |-> <<>>]
       ELSE [error |-> "",
             axis |-> [start_ |-> values[1], size_ |-> size,
                       step_ |-> Rat(increment.span, increment.den),
                       is_ascending_ |-> increment.span > 0,
                       is_periodic_ |->
                           is_periodic /\
                           is_same(Abs(increment.span) * size,
                                   Circle * increment.den, increment.den,
                                   epsilon)]]

\* The points initialize receives from Axis::Axis.
InitializedPoints(points, is_periodic) ==
    IF is_periodic THEN normalize_longitude(points) ELSE points

\* Axis::Axis(points, epsilon, is_periodic).
NewAxis(points, epsilon, is_periodic) ==
    IF Len(points) < 2 THEN [error |-> "invalid_argument", axis |-> <<>>]
    ELSE IF is_periodic
         THEN initialize(InitializedPoints(points, is_periodic), epsilon,
                         is_periodic)
         ELSE initialize(points, DefaultEpsilon, is_periodic)

\* Tolerances a caller supplies: the default, a tenth and a half of a degree.
EpsilonSet == {DefaultEpsilon, Epsilon(1, 10), Epsilon(1, 2)}

\* Spacings between consecutive points, in ticks.
SpacingSet == {Deg(90, 0), Deg(90, 5), Deg(120, 0), Deg(0, 0), Deg(-90, 0),
               Deg(-270, 0), Deg(270, 0)}

RECURSIVE SumSpacings(_, _)
SumSpacings(spacings, k) ==
    IF k = 0 THEN 0 ELSE spacings[k] + SumSpacings(spacings, k - 1)

\* Points: a first point and up to three spacings.
BuildPoints(first, spacings) ==
    [ix \in 1..(Len(spacings) + 1) |->
        first + SumSpacings(spacings, ix - 1)]

BuildPointsSet ==
    { BuildPoints(first, spacings) :
        first \in {Deg(0, 0), Deg(-180, 0), Deg(135, 0)},
        spacings \in UNION { [1..k -> SpacingSet] : k \in 0..3 } }

AxisBuildInit ==
    /\ axis = [start_ |-> 0, size_ |-> 0, step_ |-> RZero,
               is_ascending_ |-> FALSE, is_periodic_ |-> FALSE]
    /\ coord = 0
    /\ found = <<>>
    /\ apc = "build"
    /\ model = <<>>
    /\ group_modulations = FALSE
    /\ acc = <<>>
    /\ table = <<>>
    /\ call = NoCall
    /\ ev = Idle
    /\ hist = <<>>
    /\ \E points \in BuildPointsSet, epsilon \in EpsilonSet,
          is_periodic \in BOOLEAN :
          last = [op |-> "Axis()", points |-> points, epsilon |-> epsilon,
                  is_periodic |-> is_periodic, error |-> ""]

\* The construction of an axis from the points, the epsilon and the flag of
\* the call; a failed one leaves no axis.
ConstructAxis ==
    /\ apc = "build"
    /\ \E r \in {NewAxis(last.points, last.epsilon, last.is_periodic)} :
          /\ axis' = r.axis
          /\ last' = [last EXCEPT !.op = "Axis", !.error = r.error]
    /\ apc' = "built"
    /\ UNCHANGED <<coord, found, ivars, evars>>

SpecAxisBuild == AxisBuildInit /\ [][ConstructAxis]_vars

\* The points are evenly spaced to within the epsilon the caller supplied.
EvenWithinSupplied ==
    is_evenly_spaced(InitializedPoints(last.points, last.is_periodic),
                     last.epsilon)

\* C14: construction from points succeeds exactly when there are at least 2
\* points and every consecutive spacing equals the common step to within the
\* epsilon the caller supplied, on non-periodic and periodic axes alike;
\* otherwise it fails with an invalid-axis error.
C14_SuppliedEpsilon ==
    last.op = "Axis" =>
        IF Len(last.points) >= 2 /\ EvenWithinSupplied.ok
        THEN last.error = ""
        ELSE last.error = "invalid_argument"

\* C15: a periodic axis built from evenly spaced points whose step * size
\* differs from 360 degrees by more than epsilon fails with an invalid-axis
\* error.
C15_InconsistentPeriodFails ==
    (/\ last.op = "Axis"
     /\ last.is_periodic
     /\ EvenWithinSupplied.ok
     /\ ~is_same(Abs(EvenWithinSupplied.span) * Len(last.points),
                 Circle * EvenWithinSupplied.den, EvenWithinSupplied.den,
                 last.epsilon))
    => last.error = "invalid_argument"

\* ---------------------------------------------------------------------------
\* make_tide_table on lists of provided constituents.
\* ---------------------------------------------------------------------------

\* Lists of provided constituents: any order, repetitions included.
ProvidedSet == UNION { [1..k -> SeqRange(Catalogue)] : k \in 0..3 }

TableInit ==
    /\ axis = <<>>
    /\ coord = 0
    /\ found = <<>>
    /\ apc = "build"
    /\ model = <<>>
    /\ group_modulations = FALSE
    /\ acc = <<>>
    /\ table = <<>>
    /\ call = NoCall
    /\ ev = Idle
    /\ hist = <<>>
    /\ \E constituents \in ProvidedSet :
          last = [op |-> "none", constituents |-> constituents]

MakeTideTable ==
    /\ apc = "build"
    /\ table' = make_tide_table(last.constituents)
    /\ last' = [last EXCEPT !.op = "make_tide_table"]
    /\ apc' = "built"
    /\ UNCHANGED <<axis, coord, found, model, acc, call, evars>>

SpecTable == TableInit /\ [][MakeTideTable]_vars

\* C16: the table built from a list L has exactly one entry per catalogue
\* constituent, stored at the constituent's ordinal, carrying the catalogue's
\* Doodson number and type, tide (0, 0), and is_inferred true exactly for the
\* constituents that are not in L.
C16_TableOfCatalogue ==
    last.op = "make_tide_table" =>
        /\ Len(table.keys_) = kNumConstituents
        /\ DOMAIN table.items_ = 1..kNumConstituents
        /\ \A c \in SeqRange(Catalogue) :
              Cardinality({k \in 1..Len(table.keys_) : table.keys_[k] = c}) = 1
        /\ \A k \in 1..Len(table.keys_) :
              /\ constituent_to_index(table.keys_[k]) = k
              /\ table.items_[k].doodson_number =
                     kConstituents(table.keys_[k]).doodson_number
              /\ table.items_[k].type = kConstituents(table.keys_[k]).type
              /\ table.items_[k].tide = CZero
              /\ table.items_[k].is_inferred =
                     (\A j \in 1..Len(last.constituents) :
                         last.constituents[j] # table.keys_[k])

C16_Witness ==
    /\ last.op = "make_tide_table"
    /\ last.constituents = <<"M2", "K1", "M2">>
    /\ ~TableAt(table, "M2").is_inferred
    /\ ~TableAt(table, "K1").is_inferred
    /\ TableAt(table, "Node").is_inferred
    /\ TableAt(table, "Mf").is_inferred

\* ---------------------------------------------------------------------------
\* Inference of the minor constituents by admittance interpolation.
\* Tides, amplitudes, Love numbers and admittances are fixed-point numbers in
\* thousandths, every product and quotient rounded to the nearest thousandth;
\* frequencies are in thousandths of a degree per hour.
\* ---------------------------------------------------------------------------

Milli == 10 * 100

FMul(a, b) == RoundDiv(a * b, Milli)

FDiv(a, b) == RoundDiv(a * Milli, b)

\* Complex numbers in fixed point.
FCx(re, im) == [re |-> re, im |-> im]

FZero == FCx(0, 0)

FAdd(z, w) == FCx(z.re + w.re, z.im + w.im)

FSub(z, w) == FCx(z.re - w.re, z.im - w.im)

\* z * k and z / k for a real k.
FTimes(z, k) == FCx(FMul(z.re, k), FMul(z.im, k))

FOver(z, k) == FCx(FDiv(z.re, k), FDiv(z.im, k))

\* The constituents the inference is modelled on: the nine primaries, two
\* secondaries of each species, and one constituent outside every species.
InferenceCatalogue ==
    <<"Node", "Sa", "Mm", "MSf", "Mf", "Q1", "Rho1", "O1", "K1", "J1",
      "N2", "Nu2", "M2", "S2", "K2", "M4">>

\* Rates of the six Doodson variables (tau, s, h, p, N', ps).
CelestialRates == <<14492, 549, 41, 5, 2, 0>>

\* tidal_frequency(doodson_number): the rates dotted with the first six
\* components of the Doodson number.
tidal_frequency(doodson_number) ==
    CelestialRates[1] * doodson_number[1] + CelestialRates[2] * doodson_number[2]
    + CelestialRates[3] * doodson_number[3] + CelestialRates[4] * doodson_number[4]
    + CelestialRates[5] * doodson_number[5] + CelestialRates[6] * doodson_number[6]

\* love_pmm95b(frequency): k2 and h2 in ten-thousandths.
love_pmm95b(frequency) ==
    IF frequency < 5 * Milli THEN [k |-> 2990, h |-> 6060]
    ELSE IF frequency > 22 * Milli THEN [k |-> 3020, h |-> 6090]
    ELSE [k |-> 2962 - RoundDiv(127 * (frequency - 13943),
                                10 * (15076 - frequency)),
          h |-> 5994 - RoundDiv(2532 * (frequency - 13943),
                                100 * (15076 - frequency))]

\* 1 + fk - fh
LoveGamma(frequency) ==
    RoundDiv(10 * Milli + love_pmm95b(frequency).k - love_pmm95b(frequency).h, 10)

kInferredDiurnalConstituents_ ==
    [Q1 |-> 50, Rho1 |-> 10, O1 |-> 262, K1 |-> 369, J1 |-> 21]

kInferredSemidiurnalConstituents_ ==
    [N2 |-> 121, Nu2 |-> 23, M2 |-> 632, S2 |-> 294, K2 |-> 80]

kInferredLongPeriodConstituents_ ==
    [Node |-> 28, Sa |-> 5, Mm |-> 35, MSf |-> 6, Mf |-> 67]

\* populate_and_sort_inferred: the frequency of an inferred constituent.
InferredFrequency(ident) == tidal_frequency(kConstituents(ident).doodson_number)

\* linear_interpolation
linear_interpolation(x1, y1, x2, y2, x3, y3, x) ==
    IF x <= x2
    THEN FAdd(y1, FTimes(FOver(FSub(y2, y1), x2 - x1), x - x1))
    ELSE FAdd(y2, FTimes(FOver(FSub(y3, y2), x3 - x2), x - x2))

\* The precomputed inverse matrices ainv1 and ainv2.
ainv(N) ==
    IF N = 1 THEN << <<3121, -3849, 1728>>, <<-3173, 3956, -783>>,
                     <<1438, -3030, 1592>> >>
    ELSE << <<3313, -4254, 1941>>, <<-3313, 4254, -941>>,
            <<1502, -3258, 1756>> >>

\* std::cos(x * radians(48.0)) and std::sin(x * radians(48.0)).
CosF(x) ==
    CASE x = 13399 -> 228 [] x = 13471 -> 286 [] x = 13943 -> 633
      [] x = 15041 -> 999 [] x = 15585 -> 882 [] x = 28440 -> 261
      [] x = 28512 -> 319 [] x = 28984 -> 659 [] x = 30000 -> 1000
      [] x = 30082 -> 998

SinF(x) ==
    CASE x = 13399 -> -974 [] x = 13471 -> -958 [] x = 13943 -> -774
      [] x = 15041 -> 34 [] x = 15585 -> 471 [] x = 28440 -> -965
      [] x = 28512 -> -948 [] x = 28984 -> -752 [] x = 30000 -> 0
      [] x = 30082 -> 69

\* One row of ainv * admit.
MatRow(row, z1, z2, z3) ==
    FAdd(FAdd(FTimes(z1, row[1]), FTimes(z2, row[2])), FTimes(z3, row[3]))

\* fourier_interpolation<N>
fourier_interpolation(N, x1, z1, x2, z2, x3, z3, x) ==
    FAdd(FAdd(MatRow(ainv(N)[1], z1, z2, z3),
              FTimes(MatRow(ainv(N)[2], z1, z2, z3), CosF(x))),
         FTimes(MatRow(ainv(N)[3], z1, z2, z3), SinF(x)))

\* Inference::Inference(components, interpolation_type)
Inference(interpolation_type) ==
    [x1_ |-> InferredFrequency("Q1"), x2_ |-> InferredFrequency("O1"),
     x3_ |-> InferredFrequency("K1"), x4_ |-> InferredFrequency("N2"),
     x5_ |-> InferredFrequency("M2"), x6_ |-> InferredFrequency("S2"),
     x7_ |-> InferredFrequency("Node"), x8_ |-> InferredFrequency("Mm"),
     x9_ |-> InferredFrequency("Mf"),
     amp1_ |-> FMul(kInferredDiurnalConstituents_["Q1"],
                    LoveGamma(InferredFrequency("Q1"))),
     amp2_ |-> FMul(kInferredDiurnalConstituents_["O1"],
                    LoveGamma(InferredFrequency("O1"))),
     amp3_ |-> FMul(kInferredDiurnalConstituents_["K1"],
                    LoveGamma(InferredFrequency("K1"))),
     amp4_ |-> kInferredSemidiurnalConstituents_["N2"],
     amp5_ |-> kInferredSemidiurnalConstituents_["M2"],
     amp6_ |-> kInferredSemidiurnalConstituents_["S2"],
     amp7_ |-> kInferredLongPeriodConstituents_["Node"],
     amp8_ |-> kInferredLongPeriodConstituents_["Mm"],
     amp9_ |-> kInferredLongPeriodConstituents_["Mf"],
     interpolation_type_ |-> interpolation_type]

\* interpolation_1_ and interpolation_2_ of an Inference.
Interpolation(inf, N, x1, y1, x2, y2, x3, y3, x) ==
    IF inf.interpolation_type_ = "kLinearAdmittance"
    THEN linear_interpolation(x1, y1, x2, y2, x3, y3, x)
    ELSE fourier_interpolation(N, x1, y1, x2, y2, x3, y3, x)

\* sin(lat)^2 on the latitudes of the model.
SinSquared(lat) ==
    CASE Abs(lat) = Deg(0, 0) -> 0
      [] Abs(lat) = Deg(30, 0) -> 250
      [] Abs(lat) = Deg(45, 0) -> 500
      [] Abs(lat) = Deg(60, 0) -> 750
      [] Abs(lat) = Deg(90, 0) -> Milli

\* The equilibrium node tide: gamma2 * p20 * sqrt(1.25 / pi) * amplitude.
EquilibriumNodeTide(lat) ==
    FCx(FMul(FMul(FMul(682, 500 - FMul(1500, SinSquared(lat))), 631), 28), 0)

evaluate_node_tide_Always(node, lat) ==
    [node EXCEPT !.tide = EquilibriumNodeTide(lat)]

\* Inference::evaluate_node_tide: the node component after the call.
evaluate_node_tide(node, lat) ==
    IF node.is_inferred THEN [node EXCEPT !.tide = EquilibriumNodeTide(lat)]
    ELSE node

Inferred_Whatever(item, type) == item.type = type

\* The test of the three loops: the constituent is computed by inference.
Inferred(item, type) == item.is_inferred /\ item.type = type

StoreInferred_Accumulate(item, z) == [item EXCEPT !.tide = FAdd(item.tide, z)]

\* updated_item.tide = z
StoreInferred(item, z) == [item EXCEPT !.tide = z]

\* The body of the three loops, on one constituent of the table, with the
\* nine admittances taken before the loops.
InferOne(inf, c, item, y) ==
    IF c \in DOMAIN kInferredDiurnalConstituents_ /\ Inferred(item, "kShortPeriod")
    THEN StoreInferred(item,
             FTimes(FTimes(Interpolation(inf, 1, inf.x1_, y[1], inf.x2_, y[2],
                                         inf.x3_, y[3], InferredFrequency(c)),
                           LoveGamma(InferredFrequency(c))),
                    kInferredDiurnalConstituents_[c]))
    ELSE IF c \in DOMAIN kInferredSemidiurnalConstituents_
            /\ Inferred(item, "kShortPeriod")
    THEN StoreInferred(item,
             FTimes(Interpolation(inf, 2, inf.x4_, y[4], inf.x5_, y[5],
                                  inf.x6_, y[6], InferredFrequency(c)),
                    kInferredSemidiurnalConstituents_[c]))
    ELSE IF c \in DOMAIN kInferredLongPeriodConstituents_
            /\ Inferred(item, "kLongPeriod")
    THEN StoreInferred(item,
             FTimes(linear_interpolation(inf.x7_, y[7], inf.x8_, y[8],
                                         inf.x9_, y[9], InferredFrequency(c)),
                    kInferredLongPeriodConstituents_[c]))
    ELSE item

\* y1 .. y9 of Inference::operator(), hc holding the node tide already.
Admittances(inf, hc) ==
    << FOver(hc["Q1"].tide, inf.amp1_), FOver(hc["O1"].tide, inf.amp2_),
       FOver(hc["K1"].tide, inf.amp3_), FOver(hc["N2"].tide, inf.amp4_),
       FOver(hc["M2"].tide, inf.amp5_), FOver(hc["S2"].tide, inf.amp6_),
       FOver(hc["Node"].tide, inf.amp7_), FOver(hc["Mm"].tide, inf.amp8_),
       FOver(hc["Mf"].tide, inf.amp9_) >>

InferLoops(inf, hc, y) == [c \in DOMAIN hc |-> InferOne(inf, c, hc[c], y)]

WithNodeTide(hc, lat) ==
    [hc EXCEPT !["Node"] = evaluate_node_tide(hc["Node"], lat)]

\* Inference::operator()(hc, lat): the table after the call.
ApplyInference(inf, hc, lat) ==
    InferLoops(inf, WithNodeTide(hc, lat),
               Admittances(inf, WithNodeTide(hc, lat)))

\* The table an evaluation hands to the inference: the components of
\* make_tide_table, the provided ones holding the tides of a field.
InferenceTable(provided, field) ==
    [c \in SeqRange(InferenceCatalogue) |->
        [doodson_number |-> kConstituents(c).doodson_number,
         tide |-> IF c \in provided THEN field[c] ELSE FZero,
         tidal_argument |-> 0,
         type |-> kConstituents(c).type,
         is_inferred |-> c \notin provided]]

Primaries == {"Q1", "O1", "K1", "N2", "M2", "S2", "Node", "Mm", "Mf"}

\* What the gridded model provides: nothing, the primaries, the primaries
\* without Node, the primaries without Q1 or without M2, and the primaries
\* with a secondary of each species and the compound tide M4.
ProvidedSets ==
    { {}, Primaries, Primaries \ {"Node"}, Primaries \ {"Q1"},
      Primaries \ {"M2"}, Primaries \cup {"Rho1", "Nu2", "Sa", "M4"} }

\* Tides of the provided constituents: all zero, and two fields.
FieldSet ==
    { [c \in SeqRange(InferenceCatalogue) |-> FZero],
      [Node |-> FCx(20, 10), Sa |-> FCx(50, 20), Mm |-> FCx(80, 30),
       MSf |-> FCx(10, -10), Mf |-> FCx(150, 60), Q1 |-> FCx(100, 50),
       Rho1 |-> FCx(30, -10), O1 |-> FCx(500, 200), K1 |-> FCx(800, 300),
       J1 |-> FCx(40, 10), N2 |-> FCx(300, 100), Nu2 |-> FCx(60, 20),
       M2 |-> FCx(1000, 400), S2 |-> FCx(600, 200), K2 |-> FCx(160, 50),
       M4 |-> FCx(40, 40)],
      [Node |-> FCx(-10, 0), Sa |-> FCx(0, 30), Mm |-> FCx(-40, 20),
       MSf |-> FCx(5, 5), Mf |-> FCx(90, -30), Q1 |-> FCx(-60, 20),
       Rho1 |-> FCx(10, 10), O1 |-> FCx(-300, 100), K1 |-> FCx(450, -200),
       J1 |-> FCx(0, 20), N2 |-> FCx(-200, 50), Nu2 |-> FCx(-30, 10),
       M2 |-> FCx(-900, 300), S2 |-> FCx(400, -100), K2 |-> FCx(100, 0),
       M4 |-> FCx(-20, 10)] }

InferenceLatSet == {Deg(0, 0), Deg(30, 0), Deg(45, 0), Deg(-90, 0)}

InferenceInit ==
    /\ axis = <<>>
    /\ coord = 0
    /\ found = <<>>
    /\ apc = "inference"
    /\ model = <<>>
    /\ group_modulations = FALSE
    /\ acc = <<>>
    /\ call = NoCall
    /\ ev = Idle
    /\ hist = <<>>
    /\ \E provided \in ProvidedSets, field \in FieldSet,
          lat \in InferenceLatSet,
          interpolation_type \in {"kLinearAdmittance", "kFourierAdmittance"} :
          /\ table = InferenceTable(provided, field)
          /\ last = [op |-> "make_tide_table", count |-> 0, lat |-> lat,
                     inference |-> Inference(interpolation_type),
                     before |-> <<>>]

\* One call of the inference on the table, at the latitude of the point;
\* an evaluation of several points at one place calls it again and again.
Infer ==
    /\ last.count < 2
    /\ table' = ApplyInference(last.inference, table, last.lat)
    /\ last' = [last EXCEPT !.op = "inference", !.count = last.count + 1,
                            !.before = table]
    /\ UNCHANGED <<avars, model, acc, call, evars>>

SpecInference == InferenceInit /\ [][Infer]_vars

\* The constituents an application may write: flagged is_inferred, member of
\* one of the three inferrable sets, of the type of that species.
Inferrable(hc, c) ==
    /\ hc[c].is_inferred
    /\ \/ c \in DOMAIN kInferredDiurnalConstituents_ /\ hc[c].type = "kShortPeriod"
       \/ c \in DOMAIN kInferredSemidiurnalConstituents_ /\ hc[c].type = "kShortPeriod"
       \/ c \in DOMAIN kInferredLongPeriodConstituents_ /\ hc[c].type = "kLongPeriod"

\* C17: applying Inference changes only the tide of constituents flagged
\* is_inferred that belong to an inferrable set and have the type of its
\* species (the Node tide included when Node is flagged inferred); the tide
\* of every provided constituent, a provided Node included, and every
\* doodson_number, type, tidal_argument and is_inferred are left unchanged.
C17_InferenceFrame ==
    last.op = "inference" =>
        /\ DOMAIN table = DOMAIN last.before
        /\ \A c \in DOMAIN table :
              /\ table[c].doodson_number = last.before[c].doodson_number
              /\ table[c].type = last.before[c].type
              /\ table[c].tidal_argument = last.before[c].tidal_argument
              /\ table[c].is_inferred = last.before[c].is_inferred
              /\ ~Inferrable(last.before, c) =>
                     table[c].tide = last.before[c].tide

\* A first application that wrote inferred tides next to provided
\* secondaries and a provided compound tide.
C17_Witness ==
    /\ last.op = "inference"
    /\ last.count = 1
    /\ ~table["Rho1"].is_inferred /\ table["Rho1"].tide = FCx(30, -10)
    /\ ~table["M4"].is_inferred /\ table["M4"].tide = FCx(40, 40)
    /\ table["J1"].is_inferred /\ table["J1"].tide # last.before["J1"].tide
    /\ table["K2"].is_inferred /\ table["K2"].tide # last.before["K2"].tide
    /\ table["MSf"].is_inferred /\ table["MSf"].tide # last.before["MSf"].tide

AllPrimariesProvided(hc) == \A c \in Primaries : ~hc[c].is_inferred

\* C18: with all primaries provided, a second application of the inference
\* to the table it has just filled, at the same latitude, leaves every tide
\* unchanged.
C18_SecondApplicationIdempotent ==
    (last.op = "inference" /\ last.count = 2 /\ AllPrimariesProvided(table))
    => \A c \in DOMAIN table : table[c].tide = last.before[c].tide

C18_Witness ==
    /\ last.op = "inference"
    /\ last.count = 2
    /\ AllPrimariesProvided(table)
    /\ table["J1"].is_inferred /\ table["J1"].tide # FZero
    /\ table["Nu2"].is_inferred /\ table["Nu2"].tide # FZero
    /\ table = last.before

AllZero(hc) == \A c \in DOMAIN hc : hc[c].tide = FZero

DateOfYear(year, quarters) == 60078 + 1461 * (year - 1900) + quarters

\* Half a year, a quarter of a year, half a day, a quarter of a day before
\* and after the start of a year.
DeltaOffsets == {-731, -730, -365, -2, -1, 0, 1, 2, 365, 730, 731}

DeltaYears == {1698, 1699, 1700, 1701, 1800, 2000, 2149, 2150, 2151, 2152}

DeltaInit ==
    /\ axis = <<>>
    /\ coord = 0
    /\ found = <<>>
    /\ apc = "delta"
    /\ model = <<>>
    /\ group_modulations = FALSE
    /\ acc = <<>>
    /\ table = <<>>
    /\ call = NoCall
    /\ ev = Idle
    /\ hist = <<>>
    /\ \E year \in DeltaYears, quarters \in DeltaOffsets :
          last = [op |-> "none", time |-> DateOfYear(year, quarters),
                  thrown |-> FALSE, value |-> <<>>]

CalculateDeltaTime ==
    /\ last.op = "none"
    /\ \E r \in {calculate_delta_time(last.time)} :
          last' = [last EXCEPT !.op = "calculate_delta_time",
                               !.thrown = r.thrown, !.value = r.value]
    /\ UNCHANGED <<avars, ivars, evars>>

SpecDelta == DeltaInit /\ [][CalculateDeltaTime]_vars

\* Twice the fractional year of a date, less 1900, in ticks of 1/1461 year.
TwiceYearTicks(time) == 2 * (time - 60078)

DeltaPieces ==
    {"1700", "1800", "1860", "1900", "1920", "1941", "1961", "1986", "2005",
     "2050"}

\* C20: calculate_delta_time fails with an out-of-range error for every date
\* earlier than the start of year 1700 or later than year 2150 and returns a
\* finite number of seconds for every date in between; it throws at
\* fractional year 1699.999 and returns a finite value at 1700.001.
C20_ThrowsOutsideYears ==
    last.op = "calculate_delta_time" =>
        /\ last.time < DateOfYear(1700, 0) => last.thrown
        /\ last.time >= DateOfYear(2151, 0) => last.thrown
        /\ (last.time >= DateOfYear(1700, 0) /\ last.time <= DateOfYear(2150, 0))
           => (~last.thrown /\ last.value.piece \in DeltaPieces)

\* C20 as the code has it: the error is raised exactly when the fractional
\* year rounds to a year before 1700 or after 2150, that is before 1699.5 or
\* after 2150.5; every date in between, 1699.999 included, yields a value.
C20_ThrowsOutsideRoundedYears ==
    last.op = "calculate_delta_time" =>
        /\ last.thrown <=>
              \/ TwiceYearTicks(last.time) <= (2 * (1700 - 1900) - 1) * 1461
              \/ TwiceYearTicks(last.time) >= (2 * (2150 - 1900) + 1) * 1461
        /\ ~last.thrown => last.value.piece \in DeltaPieces
        /\ last.thrown => last.value.piece = "none"

\* Half a day before the start of 1700: a value of the piece of 1700.
C20_Witness ==
    /\ last.op = "calculate_delta_time"
    /\ last.time = DateOfYear(1700, -2)
    /\ ~last.thrown
    /\ last.value = [piece |-> "1700", t |-> 0]

\* ---------------------------------------------------------------------------
\* Several workers evaluating points against one shared model, each with a
\* tide table and an accelerator of its own.  A call of evaluate_tide is
\* taken in three steps (the interpolation, the inference, update_args with
\* the sum), and the steps of the workers interleave in every order.
\* ---------------------------------------------------------------------------

Workers == {1, 2}

WorkerAcc_Shared(w) == 1

\* The accelerator a worker hands to evaluate_tide: its own.
WorkerAcc(w) == w

\* The first worker infers by linear admittance, the second by Fourier.
WorkerInference(w) ==
    Inference(IF w = 1 THEN "kLinearAdmittance" ELSE "kFourierAdmittance")

\* The shared model: a periodic grid holding M2 and Node, NaN at one node.
WorkerModel ==
    TidalModel(MakeAxis(Deg(-180, 0), Deg(90, 0), 4, TRUE), LatAscending,
               <<"M2", "Node">>, [c \in {"M2", "Node"} |-> {<<1, 1>>}])

\* A point of a cell with four finite corners and one of a cell with three.
WorkerPoints == { <<Deg(45, 0), Deg(45, 0)>>, <<Deg(-45, 0), Deg(-45, 0)>> }

\* 2000-01-01 and 2000-01-02, within the tolerance of one another.
WorkerTimes == { Epoch(10957, 0), Epoch(10958, 0) }

WorkerTolerance == 1 + 1

\* A tide of the table in fixed point, and back.
ToFixed(z) ==
    FCx(RoundDiv(z.re.n * Milli, z.re.d), RoundDiv(z.im.n * Milli, z.im.d))

FromFixed(z) == Cx(Rat(z.re, Milli), Rat(z.im, Milli))

\* The tide table as the inference reads it: the constituents of the
\* inference that the table of the evaluation does not hold are components
\* of make_tide_table that the model does not provide.
InferenceView(t) ==
    [c \in SeqRange(InferenceCatalogue) |->
        IF c \in SeqRange(Catalogue)
        THEN [TableAt(t, c) EXCEPT !.tide = ToFixed(TableAt(t, c).tide)]
        ELSE [doodson_number |-> kConstituents(c).doodson_number,
              tide |-> FZero, tidal_argument |-> 0,
              type |-> kConstituents(c).type, is_inferred |-> TRUE]]

\* The tides the inference wrote, taken into the table of the evaluation.
MergeInferred(t, hc) ==
    [t EXCEPT !.items_ =
        [k \in DOMAIN t.items_ |->
            IF hc[t.keys_[k]].tide = ToFixed(t.items_[k].tide)
            THEN t.items_[k]
            ELSE [t.items_[k] EXCEPT !.tide = FromFixed(hc[t.keys_[k]].tide)]]]

\* (*inference)(tide_table, lat)
InferenceStage(inf, t, lat) ==
    MergeInferred(t, ApplyInference(inf, InferenceView(t), lat))

\* evaluate_tide with an inference, after the interpolation returned q.
InferThenSum(q, a, t, inf, lat, time, modulations) ==
    IF q = kUndefined THEN EvaluateTideWith(q, a, t, time, modulations)
    ELSE EvaluateTideWith(q, a, InferenceStage(inf, t, lat), time, modulations)

EvaluateTideInferringOn(r, a, t, inf, lat, time, modulations) ==
    InferThenSum(CHOOSE q \in r.quality : TRUE,
                 [a EXCEPT !.values_ = r.values_],
                 StoreValues(t, r.values_, Len(r.values_)),
                 inf, lat, time, modulations)

\* Perth<T>::evaluate_tide(lon, lat, time, tide_table, inference, acc)
evaluate_tide_inferring(m, lon, lat, time, t, inf, a, modulations) ==
    EvaluateTideInferringOn(interpolate(m, lon, lat, a), a, t, inf, lat, time,
                            modulations)

Output(o) ==
    [tide |-> o.sums.tide, tide_lp |-> o.sums.tide_lp, quality |-> o.quality]

SoloStore(s, o) ==
    [acc |-> o.acc, table |-> o.table, out |-> Append(s.out, Output(o))]

SoloNext(m, inf, p, s) ==
    SoloStore(s, evaluate_tide_inferring(m, p.lon, p.lat,
                                         epoch_to_modified_julian_date(p.time),
                                         s.table, inf, s.acc, FALSE))

\* A worker run alone, before its first point.
SoloStart ==
    [acc |-> Accelerator(WorkerTolerance),
     table |-> make_tide_table(WorkerModel.ids), out |-> <<>>]

WorkerIdle ==
    [pc |-> "interpolate", ix |-> 0, point |-> <<>>, q |-> kUndefined,
     inputs |-> <<>>, out |-> <<>>]

WorkersInit ==
    /\ axis = <<>>
    /\ coord = 0
    /\ found = <<>>
    /\ apc = "workers"
    /\ model = WorkerModel
    /\ group_modulations = FALSE
    /\ acc = [w \in Workers |-> Accelerator(WorkerTolerance)]
    /\ table = [w \in Workers |-> make_tide_table(WorkerModel.ids)]
    /\ call = NoCall
    /\ ev = [w \in Workers |-> WorkerIdle]
    /\ hist = [w \in Workers |-> SoloStart]
    /\ last = <<>>

\* The end of a call of evaluate_tide by worker w with the outcome o; hist
\* follows the same worker run alone on the same points.
WorkerReturn(w, p, o) ==
    /\ hist' = [hist EXCEPT ![w] =
                   SoloNext(WorkerModel, WorkerInference(w), p, @)]
    /\ acc' = [acc EXCEPT ![WorkerAcc(w)] = o.acc]
    /\ table' = [table EXCEPT ![w] = o.table]
    /\ ev' = [ev EXCEPT ![w] = [@ EXCEPT !.pc = "interpolate", !.ix = @ + 1,
                                         !.inputs = Append(@, p),
                                         !.out = Append(@, Output(o))]]

\* Worker w enters evaluate_tide on a new point: the interpolation writes
\* the values of its accelerator and the tides of its table; an Undefined
\* point returns at once.
WorkerInterpolate(w) ==
    /\ ev[w].pc = "interpolate"
    /\ ev[w].ix < MaxBatch
    /\ \E xy \in WorkerPoints, epoch \in WorkerTimes :
          \E r \in {interpolate(model, xy[1], xy[2], acc[WorkerAcc(w)])} :
             \E q \in r.quality,
                p \in {[lon |-> xy[1], lat |-> xy[2], time |-> epoch]} :
                IF q = kUndefined
                THEN WorkerReturn(w, p,
                         EvaluateTideWith(q,
                             [acc[WorkerAcc(w)] EXCEPT !.values_ = r.values_],
                             StoreValues(table[w], r.values_, Len(r.values_)),
                             epoch_to_modified_julian_date(epoch),
                             group_modulations))
                ELSE /\ acc' = [acc EXCEPT ![WorkerAcc(w)].values_ = r.values_]
                     /\ table' = [table EXCEPT ![w] =
                                     StoreValues(@, r.values_, Len(r.values_))]
                     /\ ev' = [ev EXCEPT ![w] = [@ EXCEPT !.pc = "inference",
                                                          !.point = p, !.q = q]]
                     /\ UNCHANGED hist
    /\ UNCHANGED <<avars, model, call, group_modulations, last>>

\* The inference of worker w fills its table.
WorkerInfer(w) ==
    /\ ev[w].pc = "inference"
    /\ table' = [table EXCEPT ![w] =
                    InferenceStage(WorkerInference(w), @, ev[w].point.lat)]
    /\ ev' = [ev EXCEPT ![w].pc = "update_args"]
    /\ UNCHANGED <<avars, model, acc, call, group_modulations, hist, last>>

\* update_args and the sum over the table of worker w; the call returns.
WorkerSum(w) ==
    /\ ev[w].pc = "update_args"
    /\ WorkerReturn(w, ev[w].point,
           EvaluateTideWith(ev[w].q, acc[WorkerAcc(w)], table[w],
                            epoch_to_modified_julian_date(ev[w].point.time),
                            group_modulations))
    /\ UNCHANGED <<avars, model, call, group_modulations, last>>

WorkersNext ==
    \E w \in Workers : WorkerInterpolate(w) \/ WorkerInfer(w) \/ WorkerSum(w)

SpecWorkers == WorkersInit /\ [][WorkersNext]_vars

\* Worker w has the outputs, and between two points the scratch, of the run s.
AsAlone(w, s) ==
    /\ Len(s.out) = Len(ev[w].inputs)
    /\ ev[w].out = s.out
    /\ ev[w].pc = "interpolate" =>
          (table[w] = s.table /\ acc[WorkerAcc(w)] = s.acc)

----------------------------------------------------------------------------
(* Claims about the Doodson arguments *)

\* The points at which update_args went through, and the last of them.
Recomputed == {k \in Reached : hist[k].recomputed}

LastRecomputed == CHOOSE k \in Recomputed : \A j \in Recomputed : j <= k

\* x lies in [-180, 180).
InHalfOpenCircle(x) == -180 <= x /\ x < 180

\* Specification of the Doodson argument: a time and a constituent are
\* drawn, and calculate_doodson_argument is applied to them once.

\* The days from 2000-01-01 to 2000-01-24, at each quarter of the day.
DoodsonTimes ==
    { epoch_to_modified_julian_date(Epoch(10957 + d, q)) : d \in 0..23, q \in 0..3 }

DoodsonInit ==
    /\ axis = <<>>
    /\ coord = 0
    /\ found = <<>>
    /\ apc = "doodson"
    /\ model = <<>>
    /\ group_modulations = FALSE
    /\ acc = <<>>
    /\ table = <<>>
    /\ call = NoCall
    /\ ev = Idle
    /\ hist = <<>>
    /\ \E time \in DoodsonTimes, k \in 1..Len(InferenceCatalogue) :
          last = [op |-> "none", time |-> time, ident |-> InferenceCatalogue[k],
                  arg |-> 0, sum |-> 0]

\* calculate_doodson_argument(time, delta, doodson_number) with the Delta-T
\* of the time, as update_args calls it for a table entry.
CalculateDoodsonArgument ==
    /\ last.op = "none"
    /\ \E delta \in {calculate_delta_time(last.time).value} :
          last' = [last EXCEPT
                     !.op = "calculate_doodson_argument",
                     !.sum = Dot7(kConstituents(last.ident).doodson_number,
                                  calculate_celestial_vector(last.time, delta) \o <<90>>),
                     !.arg = calculate_doodson_argument(
                                 last.time, delta, kConstituents(last.ident).doodson_number)]
    /\ UNCHANGED <<avars, ivars, evars>>

SpecDoodson == DoodsonInit /\ [][CalculateDoodsonArgument]_vars

----------------------------------------------------------------------------
(* Claims about the conversion of epochs *)

\* C22: for every epoch, negative ones included, the Modified Julian Date
\* evaluate obtains from epoch_to_modified_julian_date is the epoch divided
\* by the length of the day, fraction of the day included, plus 40587 days.
C22_EpochWithDayFraction ==
    \A k \in 1..Len(ev.time) :
        epoch_to_modified_julian_date(ev.time[k]) = ev.time[k] + TicksPerDay * 40587

----------------------------------------------------------------------------
(* Claims about the accelerator's cell cache *)

\* The corners <<x1, x2, y1, y2>> of a cell <<i1, i2, j1, j2>> of the model.
Corners(m, cell) ==
    << value(m.lon_, cell[1]), value(m.lon_, cell[2]),
       value(m.lat_, cell[3]), value(m.lat_, cell[4]) >>

\* The cell the accelerator holds.
CachedCorners(a) == << a.x1_, a.x2_, a.y1_, a.y2_ >>

\* C23: when interpolate has computed the values of a query whose cell was
\* not the cached one, the accelerator's cached corners x1, x2, y1, y2 are
\* those of the query's cell, so that a following query in the same cell
\* finds the cached cell equal.
C23_CacheRefreshed ==
    call.path = "computed" => CachedCorners(acc) = Corners(model, call.cell)

\* The cached corners are never written: every interpolate call in a cell
\* computes the values again.
CacheNeverUsed == CachedCorners(acc) = <<DblMax, DblMax, DblMax, DblMax>> /\ call.path # "cached"

----------------------------------------------------------------------------
(* Claims about the values interpolate leaves behind *)

\* The tide of the constituent c in the table.
TideOf(t, c) == t.items_[constituent_to_index(c)].tide

\* C24: whenever interpolate returns Undefined, no cell having been found on
\* an axis or the value of some constituent being NaN, the tide of every
\* constituent of the model is NaN in the table afterwards, those computed
\* as finite before the NaN was met included.
C24_UndefinedIsAllNaN ==
    (call.path # "none" /\ call.quality = kUndefined)
        => \A c \in SeqRange(model.ids) : TideOf(table, c).nan

\* C24 witness: the loop was left at the second of three constituents, the
\* value of the first having been stored as finite in the accelerator, and
\* the table holds NaN for the three.
C24_Witness ==
    /\ call.path = "nan" /\ call.quality = kUndefined
    /\ Len(model.ids) = 3
    /\ acc.values_[1][1] = model.ids[1] /\ ~acc.values_[1][2].nan
    /\ \A c \in SeqRange(model.ids) : TideOf(table, c).nan

----------------------------------------------------------------------------
(* Specification of bilinear_interpolation: a point, the corners of a cell
   and the four corner values are drawn, and the function is applied once. *)

\* Coordinates of the point on each side of the cell [0, 2] x [0, 2], on
\* its edges and in its middle.
BilinearCoords == {-1, 0, 1, 2, 3}

\* The corners z11, z12, z21, z22 that are NaN.
BilinearMasks == SUBSET (1..4)

\* The four corner values: distinct finite values, NaN on the mask.
BilinearValues(mask) ==
    [k \in 1..4 |-> IF k \in mask THEN undefined_value ELSE CInt(3 * k, 5 - 2 * k)]

BilinearInit ==
    /\ axis = <<>>
    /\ coord = 0
    /\ found = <<>>
    /\ apc = "bilinear"
    /\ model = <<>>
    /\ group_modulations = FALSE
    /\ acc = <<>>
    /\ table = <<>>
    /\ call = NoCall
    /\ ev = Idle
    /\ hist = <<>>
    /\ \E x \in BilinearCoords, y \in BilinearCoords, mask \in BilinearMasks :
          last = [op |-> "none",
                  w |-> bilinear_weights(x, y, 0, 0, 2, 2),
                  z |-> BilinearValues(mask),
                  value |-> undefined_value, n |-> 0]

\* bilinear_interpolation(wx1, wx2, wy1, wy2, z11, z12, z21, z22, n)
BilinearInterpolation ==
    /\ last.op = "none"
    /\ \E r \in {bilinear_interpolation(last.w, last.z[1], last.z[2], last.z[3], last.z[4])} :
          last' = [last EXCEPT !.op = "bilinear_interpolation",
                               !.value = r.value, !.n = r.n]
    /\ UNCHANGED <<avars, ivars, evars>>

SpecBilinear == BilinearInit /\ [][BilinearInterpolation]_vars

\* The corners whose value is finite.
FiniteOf(z) == { k \in 1..4 : ~z[k].nan }

ValueIf(F, z, cw, k) == IF k \in F THEN CScale(z[k], cw[k]) ELSE CZero

\* The sum of the values of the corners in F, each times its weight.
ValueOn(F, z, cw) ==
    CAdd(CAdd(ValueIf(F, z, cw, 1), ValueIf(F, z, cw, 2)),
         CAdd(ValueIf(F, z, cw, 3), ValueIf(F, z, cw, 4)))

\* The weighted mean over the corners in F.
MeanOn(F, z, cw) ==
    Cx(RDiv(ValueOn(F, z, cw).re, WeightOn(F, cw)),
       RDiv(ValueOn(F, z, cw).im, WeightOn(F, cw)))

\* The sum of the weights of the finite corners of the call, and the mean
\* over them.
FiniteWeight == WeightOn(FiniteOf(last.z), CornerWeights(last.w))

FiniteMean == MeanOn(FiniteOf(last.z), last.z, CornerWeights(last.w))

\* C25 (as stated): bilinear_interpolation counts the finite corners in n and
\* returns their weighted mean when the sum of their weights is positive,
\* and NaN otherwise.
C25_MeanWhenPositive ==
    last.op = "bilinear_interpolation" =>
        /\ last.n = Cardinality(FiniteOf(last.z))
        /\ last.value = IF ~RLeq(FiniteWeight, RZero) THEN FiniteMean ELSE undefined_value

\* C25 (amended): bilinear_interpolation counts the finite corners in n and
\* returns their weighted mean when the sum of their weights is not zero,
\* negative sums included, and NaN when it is zero.
C25_MeanWhenNonZero ==
    last.op = "bilinear_interpolation" =>
        /\ last.n = Cardinality(FiniteOf(last.z))
        /\ last.value = IF FiniteWeight # RZero THEN FiniteMean ELSE undefined_value

\* C25 witness: two corners are NaN, the two finite ones weigh less than
\* zero together, and their mean was returned with n = 2.
C25_Witness ==
    /\ last.op = "bilinear_interpolation"
    /\ Cardinality(FiniteOf(last.z)) = 2
    /\ ~RLeq(RZero, FiniteWeight)
    /\ last.value = FiniteMean /\ ~last.value.nan
    /\ last.n = 2

----------------------------------------------------------------------------
(* Claims about the astronomical state behind a sum *)

\* The last step of evaluate went on to sum the constituents.
Summing == Len(hist) > 0 /\ ~hist[Len(hist)].undefined /\ ~hist[Len(hist)].thrown

\* The nodal corrections of the constituents of the table, in its order, at
\* the time and Delta-T the accelerator holds.
CorrectionsAt(a, t, args) ==
    IF group_modulations
    THEN compute_group_corrections(args[6], -args[5], args[4], args[3], t.keys_)
    ELSE compute_nodal_corrections(-args[5], args[4], t.keys_)

\* C26: every time evaluate sums the constituents, from the first point on
\* and for any time_tolerance, nodal_corrections has one entry per
\* constituent of the table, entry i being that of the constituent at index
\* i, and the tidal_argument of every entry is the Doodson argument of its
\* own Doodson number at the accelerator's cached time.
C26_ArgumentsOfTheTable ==
    Summing =>
        /\ Len(acc.nodal_corrections_) = kNumConstituents
        /\ acc.nodal_corrections_ =
              CorrectionsAt(acc, table, calculate_celestial_vector(acc.time_, acc.delta_))
        /\ \A i \in 1..kNumConstituents :
              table.items_[i].tidal_argument =
                 calculate_doodson_argument(acc.time_, acc.delta_,
                                            kConstituents(table.keys_[i]).doodson_number)

----------------------------------------------------------------------------
(* Claims about longitudes that cross the seam *)

\* The spacing a step becomes where the points cross the seam.
WrapOf(step) == IF step > 0 THEN step - Circle ELSE step + Circle

\* The points are longitudes of [-180, 180] whose spacing is the step, less
\* than half a turn, everywhere but at one place, where they cross the seam.
CrossesSeamOnce(points, step) ==
    /\ step # 0 /\ 2 * Abs(step) < Circle
    /\ \A ix \in 1..Len(points) : Deg(-180, 0) <= points[ix] /\ points[ix] <= Deg(180, 0)
    /\ \A ix \in 2..Len(points) : points[ix] - points[ix - 1] \in {step, WrapOf(step)}
    /\ Cardinality({ ix \in 2..Len(points) : points[ix] - points[ix - 1] = WrapOf(step) }) = 1

\* The step of points that cross the seam once, if they do.
SeamSteps(points) ==
    IF Len(points) < 2 THEN {}
    ELSE { step \in { points[2] - points[1], points[2] - points[1] + Circle,
                      points[2] - points[1] - Circle } : CrossesSeamOnce(points, step) }

\* The same points without the jump.
Unwrapped(points, step) == [ix \in 1..Len(points) |-> points[1] + (ix - 1) * step]

\* C27: on a periodic axis, points evenly spaced modulo 360 degrees that
\* cross the seam once, wherever in the sequence, between the first two
\* points included, are built into the axis of the unwrapped points.
C27_SeamAnywhere ==
    (last.op = "Axis" /\ last.is_periodic) =>
        \A step \in SeamSteps(last.points) :
            /\ last.error = ""
            /\ axis = NewAxis(Unwrapped(last.points, step), last.epsilon, TRUE).axis

\* The seam is crossed after the second point: the first two points give
\* the direction of the axis.
SeamAfterSecond(points, step) == points[2] - points[1] = step

\* Where the first two points are on the same side of the seam, the axis of
\* the unwrapped points is built.
SeamAfterSecondUnwrapped ==
    (last.op = "Axis" /\ last.is_periodic) =>
        \A step \in SeamSteps(last.points) :
            SeamAfterSecond(last.points, step) =>
                /\ last.error = ""
                /\ axis = NewAxis(Unwrapped(last.points, step), last.epsilon, TRUE).axis

\* Four points that cross the seam after the second one were built into a
\* periodic axis.
SeamAfterSecondBuilt ==
    /\ last.op = "Axis" /\ last.is_periodic /\ last.error = ""
    /\ \E step \in SeamSteps(last.points) :
          SeamAfterSecond(last.points, step) /\ Len(last.points) = 4 /\ axis.is_periodic_

----------------------------------------------------------------------------
(* Claims about the size of the accelerator *)

\* Accelerator::size()
AcceleratorSize == last.capacity

\* C28: after any sequence of interpolate calls with the same accelerator,
\* its values hold at most one entry per constituent of the model and
\* Accelerator::size() is still the number of constituents it was made for,
\* so that the test model.size() == acc.size() of the binding passes.
C28_OneEntryPerConstituent ==
    /\ Len(acc.values_) <= Len(model.ids)
    /\ \A i, j \in 1..Len(acc.values_) : acc.values_[i][1] = acc.values_[j][1] => i = j
    /\ AcceleratorSize = Len(model.ids)

----------------------------------------------------------------------------
(* Claims about the independence of a query from the queries before *)

\* The last query made with a new accelerator and a new table.
Fresh == interpolate(model, call.lon, call.lat, Accelerator(0))

FreshTable(f) == StoreValues(make_tide_table(model.ids), f.values_, Len(f.values_))

----------------------------------------------------------------------------
(* Specification of the astronomical cache: an accelerator and the table of
   a model, on which update_args is called time after time. *)

ArgsInit ==
    /\ axis = <<>>
    /\ coord = 0
    /\ found = <<>>
    /\ apc = "args"
    /\ model = <<>>
    /\ group_modulations \in BOOLEAN
    /\ \E time_tolerance \in ToleranceSet : acc = Accelerator(time_tolerance)
    /\ table = make_tide_table(<<"M2", "Node">>)
    /\ call = NoCall
    /\ ev = Idle
    /\ hist = <<>>
    /\ last = [op |-> "none", time |-> 0, thrown |-> FALSE, acc |-> <<>>, table |-> <<>>]

\* Accelerator::update_args(time, group_modulations, table), the accelerator
\* and the table as they were before the call being kept in last.
UpdateArgs ==
    /\ \E epoch \in TimeSet :
          \E u \in {update_args(acc, epoch_to_modified_julian_date(epoch),
                                group_modulations, table)} :
             /\ acc' = u.acc
             /\ table' = u.table
             /\ last' = [op |-> "update_args",
                         time |-> epoch_to_modified_julian_date(epoch),
                         thrown |-> u.thrown, acc |-> acc, table |-> table]
    /\ UNCHANGED <<avars, model, call, evars>>

SpecArgs == ArgsInit /\ [][UpdateArgs]_vars

\* C30: when update_args fails, the time being outside the range of Delta-T,
\* the cached time, Delta-T and nodal corrections of the accelerator and the
\* tidal arguments of the table are as they were before the call, and the
\* same call made again fails again.
C30_FailureLeavesNoTrace ==
    (last.op = "update_args" /\ last.thrown) =>
        /\ acc.time_ = last.acc.time_
        /\ acc.delta_ = last.acc.delta_
        /\ acc.nodal_corrections_ = last.acc.nodal_corrections_
        /\ table = last.table
        /\ update_args(acc, last.time, group_modulations, table).thrown

\* Only the cached time changes in a failed call.
FailureChangesTimeOnly ==
    (last.op = "update_args" /\ last.thrown) =>
        /\ acc = [last.acc EXCEPT !.time_ = last.time]
        /\ table = last.table

\* After a failed call, the same call is taken for a cache hit exactly when
\* the tolerance is positive.
FailureThenCacheHit ==
    (last.op = "update_args" /\ last.thrown) =>
        (update_args(acc, last.time, group_modulations, table).thrown
            <=> acc.time_tolerance_ = 0)

====
